---- MODULE Spec2Model ----
(***************************************************************************)
(* State-machine model of the apartment wizard of app.py: the aiogram FSM  *)
(* session of every user (state + data), the apartments table and the     *)
(* handlers that read or write them.  A handler is one atomic action: the  *)
(* dispatcher runs it on the in-memory session storage, whose calls never  *)
(* suspend; storage failures of the database statements are a              *)
(* nondeterministic outcome of the action.  Message deliveries to the      *)
(* operator are taken to succeed.                                          *)
(*                                                                         *)
(* Texts are sequences of one-character strings, so that strip, isdigit,   *)
(* startswith, split and int are computed the way the code computes them.  *)
(***************************************************************************)
EXTENDS Integers, Sequences, FiniteSets, TLC

(***************************************************************************)
(* Bounds of the model                                                     *)
(***************************************************************************)
MaxApts == 2          \* rows the apartments table may hold
MaxMedia == 2         \* media items one session may accumulate
MaxCommits == 1       \* commits that reach the table in one run of the model

(***************************************************************************)
(* Users and configuration                                                 *)
(***************************************************************************)
Admin == 1
Guest == 2
Users == {Admin, Guest}
ADMIN_IDS == {Admin}

None == "None"

(***************************************************************************)
(* Python string functions on texts                                        *)
(***************************************************************************)
Digits == {"0", "1", "2", "3", "4", "5", "6", "7", "8", "9"}

IsSpace(c) == c \in {" ", "\n"}

DigitVal(c) ==
  CASE c = "0" -> 0 [] c = "1" -> 1 [] c = "2" -> 2 [] c = "3" -> 3
    [] c = "4" -> 4 [] c = "5" -> 5 [] c = "6" -> 6 [] c = "7" -> 7
    [] c = "8" -> 8 [] c = "9" -> 9

RECURSIVE lstrip(_)
lstrip(s) == IF s # <<>> /\ IsSpace(Head(s)) THEN lstrip(Tail(s)) ELSE s

RECURSIVE rstrip(_)
rstrip(s) ==
  IF s # <<>> /\ IsSpace(s[Len(s)]) THEN rstrip(SubSeq(s, 1, Len(s) - 1)) ELSE s

strip(s) == rstrip(lstrip(s))

isdigit(s) == s # <<>> /\ \A i \in 1..Len(s) : s[i] \in Digits

RECURSIVE int(_)
int(s) == IF s = <<>> THEN 0 ELSE 10 * int(SubSeq(s, 1, Len(s) - 1)) + DigitVal(s[Len(s)])

startswith(s, p) == Len(s) >= Len(p) /\ SubSeq(s, 1, Len(p)) = p

HTTP == <<"h", "t", "t", "p", ":", "/", "/">>
HTTPS == <<"h", "t", "t", "p", "s", ":", "/", "/">>

IsHttpUrl(s) == startswith(s, HTTP) \/ startswith(s, HTTPS)

\* s.split(sep): the pieces between the separators, empty pieces kept
RECURSIVE split(_, _)
split(s, sep) ==
  IF \E i \in 1..Len(s) : s[i] = sep
  THEN LET i == CHOOSE j \in 1..Len(s) : s[j] = sep /\ \A k \in 1..(j - 1) : s[k] # sep
       IN  <<SubSeq(s, 1, i - 1)>> \o split(SubSeq(s, i + 1, Len(s)), sep)
  ELSE <<s>>

\* s.splitlines(): as split on the newline, without the empty last line
splitlines(s) ==
  IF s = <<>> THEN <<>>
  ELSE LET parts == split(s, "\n")
       IN  IF parts[Len(parts)] = <<>> THEN SubSeq(parts, 1, Len(parts) - 1) ELSE parts

LowerChar(c) == CASE c = "A" -> "a" [] c = "B" -> "b" [] OTHER -> c

lower(s) == [i \in 1..Len(s) |-> LowerChar(s[i])]

\* sep.join(parts)
RECURSIVE join(_, _)
join(parts, sep) ==
  IF parts = <<>> THEN <<>>
  ELSE IF Len(parts) = 1 THEN parts[1]
  ELSE parts[1] \o <<sep>> \o join(Tail(parts), sep)

\* [f(x) for x in seq if keep(x)] for the stripped, non-empty elements
RECURSIVE StrippedNonEmpty(_)
StrippedNonEmpty(seq) ==
  IF seq = <<>> THEN <<>>
  ELSE LET x == strip(Head(seq))
       IN  (IF x # <<>> THEN <<x>> ELSE <<>>) \o StrippedNonEmpty(Tail(seq))

RECURSIVE SelectSeqHttp(_)
SelectSeqHttp(seq) ==
  IF seq = <<>> THEN <<>>
  ELSE (IF IsHttpUrl(Head(seq)) THEN <<Head(seq)>> ELSE <<>>) \o SelectSeqHttp(Tail(seq))

(***************************************************************************)
(* dict helpers: a session's data is a function from keys to values        *)
(***************************************************************************)
EmptyData == <<>>

Has(d, k) == k \in DOMAIN d

Get(d, k, default) == IF k \in DOMAIN d THEN d[k] ELSE default

\* state.update_data(**new): the new keys win, the other keys stay
Update(d, new) == new @@ d

(***************************************************************************)
(* The step table                                                          *)
(***************************************************************************)
APARTMENT_WIZARD_STEPS ==
  << [key |-> "media_items",   kind |-> "media_upload"],
     [key |-> "header_text",   kind |-> "text"],
     [key |-> "short_desc",    kind |-> "text"],
     [key |-> "quote_desc",    kind |-> "text"],
     [key |-> "features_text", kind |-> "text"],
     [key |-> "guests_max",    kind |-> "int"],
     [key |-> "tags",          kind |-> "text"],
     [key |-> "map_url",       kind |-> "url"] >>

\* len(APARTMENT_WIZARD_STEPS)
N == Len(APARTMENT_WIZARD_STEPS)

\* APARTMENT_WIZARD_STEPS[idx], Python's index from 0
StepAt(idx) == APARTMENT_WIZARD_STEPS[idx + 1]

FieldKeys == {APARTMENT_WIZARD_STEPS[i].key : i \in 1..N}

\* AdminApartmentWizardState
WizardStates == {"waiting_text", "waiting_choice", "waiting_media", "preview"}

(***************************************************************************)
(* The state                                                               *)
(***************************************************************************)
VARIABLES
  fsm,          \* user -> FSM state of the user's session ("None": no state)
  data,         \* user -> the session's data dict
  apartments,   \* the apartments table, row i has id i
  commits,      \* statements of commits the table has executed
  last,         \* the update served last: its user, the FSM state the user's
                \* session was in when it arrived, the reply the handler gave
  sent,         \* the preview the update served last has sent (<<>>: none)
  user_filters, \* user -> the catalog filter the process keeps for the user
  result,       \* what the catalog screen rendered last has read
  now,          \* the clock, in tenths of a second (in days for the reminders)
  last_click_at,\* (user, key) -> the time of the click accepted last
  registered,   \* user -> the times at which a catalog page was rendered for a click
  promo_codes,  \* the promo_codes table, row i has id i
  requests,     \* the handlers of promo:welcome, each where it stands
  tasks,        \* the handlers of messages sent at the media step, in the order
                \* of arrival, each where it stands
  is_blocked,   \* users.is_blocked, by tg_user_id
  outbox,       \* the mailing run last: who ran it, the rows it selected, the
                \* recipients it tried, those whose delivery failed, the number
                \* it counted as sent
  boot,         \* main(): the settings the environment holds, the statement it
                \* stands at, what it has opened and started
  users,        \* the users table, by tg_user_id (NO_USER: no row)
  referrals,    \* the rows of the referrals table
  giveaway_entries, \* the rows of the giveaway_entries table
  stored        \* table -> the user ids its rows hold, for date_requests,
                \* entry_date_requests, click_events and events

\* the state of the catalog screen and of the promo codes
catalogVars == <<user_filters, result, now, last_click_at, registered>>
promoVars == <<promo_codes, requests>>
mailVars == <<is_blocked, outbox>>
dbVars == <<users, referrals, giveaway_entries, stored>>

vars == <<fsm, data, apartments, commits, last, sent, catalogVars, promoVars, tasks, mailVars, boot, dbVars>>

\* Message ids are opaque to the program: the model names a prompt message by
\* the step it renders (the preview is step N).
PromptMessageId(idx) == idx + 1

\* the message that carries the button of a callback outside the wizard
CARD_MESSAGE_ID == 0

\* a session while a handler works on it
Session(u) == [fsm |-> fsm[u], data |-> data[u]]

\* a clear that resets the FSM state and keeps the data (set_state(None) alone)
Clear_state_only(s) == [s EXCEPT !.fsm = None]

\* state.clear()
Clear(s) == [s EXCEPT !.fsm = None, !.data = EmptyData]

(***************************************************************************)
(* Wizard engine                                                           *)
(***************************************************************************)
\* wizard_send_prompt: send the prompt, remember its id
wizard_send_prompt(s) ==
  [s EXCEPT !.data = Update(s.data, "wizard_prompt_message_id"
                                     :> PromptMessageId(Get(s.data, "wizard_index", 0)))]

wizard_show_step(s) ==
  LET idx == Get(s.data, "wizard_index", 0)
      step == StepAt(idx)
      st == IF step.kind = "choice" THEN "waiting_choice"
            ELSE IF step.kind = "media_upload" THEN "waiting_media"
            ELSE "waiting_text"
  IN  wizard_send_prompt([s EXCEPT !.fsm = st])

\* an advance that steps over the next entry of the table
wizard_advance_skipping(s) ==
  LET idx == Get(s.data, "wizard_index", 0) + 2
      s1 == [s EXCEPT !.data = Update(s.data, "wizard_index" :> idx @@ "custom_step_key" :> None)]
  IN  IF idx >= N
      THEN wizard_send_prompt([s1 EXCEPT !.fsm = "preview"])
      ELSE wizard_show_step(s1)

wizard_advance(s) ==
  LET idx == Get(s.data, "wizard_index", 0) + 1
      s1 == [s EXCEPT !.data = Update(s.data, "wizard_index" :> idx @@ "custom_step_key" :> None)]
  IN  IF idx >= N
      THEN wizard_send_prompt([s1 EXCEPT !.fsm = "preview"])
      ELSE wizard_show_step(s1)

(***************************************************************************)
(* Apartment rows                                                          *)
(***************************************************************************)
\* the larger of two numbers without the comparison: the second
Max_unclamped(a, b) == b

Max(a, b) == IF a >= b THEN a ELSE b

\* the media items of a list that have a non-empty type and value, stripped
RECURSIVE NormalizeMedia(_)
NormalizeMedia(items) ==
  IF items = <<>> THEN <<>>
  ELSE LET kind == strip(Head(items).type)
           val == strip(Head(items).value)
       IN  (IF kind # <<>> /\ val # <<>> THEN <<[type |-> kind, value |-> val]>> ELSE <<>>)
           \o NormalizeMedia(Tail(items))

URL_KIND == <<"u", "r", "l">>
PHOTO_KIND == <<"p", "h", "o", "t", "o">>
VIDEO_KIND == <<"v", "i", "d", "e", "o">>
DOCUMENT_KIND == <<"d", "o", "c", "u", "m", "e", "n", "t">>

\* the values of all items, whatever their kind
RECURSIVE UrlValues_all_kinds(_)
UrlValues_all_kinds(items) ==
  IF items = <<>> THEN <<>>
  ELSE <<Head(items).value>> \o UrlValues_all_kinds(Tail(items))

\* [x["value"] for x in media_items if x.get("type") == "url"]
RECURSIVE UrlValues(_)
UrlValues(items) ==
  IF items = <<>> THEN <<>>
  ELSE (IF Head(items).type = URL_KIND THEN <<Head(items).value>> ELSE <<>>)
       \o UrlValues(Tail(items))

RECURSIVE LowerAll(_)
LowerAll(seq) == IF seq = <<>> THEN <<>> ELSE <<lower(Head(seq))>> \o LowerAll(Tail(seq))

DEFAULT_TITLE == <<"K">>           \* "Квартира"
DEFAULT_ADDRESS == <<"A">>         \* "Адрес не указан"
ELLIPSIS == <<".", ".", ".">>

FirstLineStripped(text, default) ==
  IF text # <<>> THEN strip(splitlines(text)[1]) ELSE default

Truncate(text, limit) ==
  IF Len(text) > limit THEN SubSeq(text, 1, limit - 3) \o ELLIPSIS ELSE text

\* the column values cb_apartment_wizard_preview computes from the session data
\* (is_active is not among them: the INSERT leaves it to the column default,
\* the UPDATE leaves it alone)
CommitColumns(d) ==
  LET header_text == strip(Get(d, "header_text", <<>>))
      short_desc == strip(Get(d, "short_desc", <<>>))
      quote_desc == strip(Get(d, "quote_desc", <<>>))
      features_text == strip(Get(d, "features_text", <<>>))
      media_items == NormalizeMedia(Get(d, "media_items", <<>>))
  IN  [ title |-> Truncate(FirstLineStripped(header_text, DEFAULT_TITLE), 80),
        address_short |-> Truncate(FirstLineStripped(header_text, DEFAULT_ADDRESS), 120),
        guests_max |-> IF Has(d, "guests_max") THEN Max(1, d["guests_max"]) ELSE 2,
        amenities |-> SubSeq(short_desc, 1, IF Len(short_desc) < 180 THEN Len(short_desc) ELSE 180),
        tags |-> LowerAll(StrippedNonEmpty(split(Get(d, "tags", <<>>), ","))),
        price_from |-> 0,
        channel_post_url |-> <<>>,
        map_url |-> Get(d, "map_url", <<>>),
        sort_order |-> Get(d, "sort_order", 0),
        details_json |-> [ header_text |-> header_text,
                           short_desc |-> short_desc,
                           quote_desc |-> quote_desc,
                           features_text |-> features_text,
                           media_items |-> media_items ],
        media_urls |-> UrlValues(media_items) ]

\* the row an INSERT of these columns creates: is_active DEFAULT TRUE
InsertedRow(cols) ==
  [ title |-> cols.title, address_short |-> cols.address_short,
    guests_max |-> cols.guests_max, amenities |-> cols.amenities, tags |-> cols.tags,
    price_from |-> cols.price_from, channel_post_url |-> cols.channel_post_url,
    map_url |-> cols.map_url, sort_order |-> cols.sort_order,
    details_json |-> cols.details_json, media_urls |-> cols.media_urls,
    is_active |-> TRUE ]

\* the row an UPDATE of these columns leaves
UpdatedRow(row, cols) == [InsertedRow(cols) EXCEPT !.is_active = row.is_active]

RECURSIVE MediaUrlItems(_)
MediaUrlItems(urls) ==
  IF urls = <<>> THEN <<>>
  ELSE <<[type |-> URL_KIND, value |-> Head(urls)]>> \o MediaUrlItems(Tail(urls))

\* the seed fields of an edit run
apartment_wizard_defaults_from_apartment(apt) ==
  LET details == apt.details_json
      media_items == IF details.media_items = <<>> /\ apt.media_urls # <<>>
                     THEN MediaUrlItems(apt.media_urls)
                     ELSE details.media_items
  IN  "header_text" :> details.header_text
      @@ "short_desc" :> details.short_desc
      @@ "quote_desc" :> details.quote_desc
      @@ "features_text" :> details.features_text
      @@ "guests_max" :> (IF apt.guests_max = 0 THEN 2 ELSE apt.guests_max)
      @@ "tags" :> join(apt.tags, ",")
      @@ "media_items" :> media_items
      @@ "map_url" :> apt.map_url
      @@ "sort_order" :> apt.sort_order

\* str(n) of a natural number
DigitChar(n) ==
  CASE n = 0 -> "0" [] n = 1 -> "1" [] n = 2 -> "2" [] n = 3 -> "3" [] n = 4 -> "4"
    [] n = 5 -> "5" [] n = 6 -> "6" [] n = 7 -> "7" [] n = 8 -> "8" [] n = 9 -> "9"

RECURSIVE str(_)
str(n) == IF n < 10 THEN <<DigitChar(n)>> ELSE str(n \div 10) \o <<DigitChar(n % 10)>>

\* f"{data.get(key, '')}" of a text or a number
\* (the values kept under guests_max and sort_order are numbers)
Formatted(d, k) ==
  IF ~Has(d, k) THEN <<>>
  ELSE IF k \in {"guests_max", "sort_order"} THEN str(d[k]) ELSE d[k]

\* build_apartment_preview_text: the lines of the preview that render a
\* field, in the order of the text, each with the key it renders
build_apartment_preview_text(d) ==
  << [key |-> "header_text",   text |-> Formatted(d, "header_text")],
     [key |-> "short_desc",    text |-> Formatted(d, "short_desc")],
     [key |-> "quote_desc",    text |-> Formatted(d, "quote_desc")],
     [key |-> "features_text", text |-> Formatted(d, "features_text")],
     [key |-> "guests_max",    text |-> Formatted(d, "guests_max")],
     [key |-> "tags",          text |-> Formatted(d, "tags")],
     [key |-> "media_items",   text |-> str(Len(Get(d, "media_items", <<>>)))],
     [key |-> "map_url",       text |-> Formatted(d, "map_url")],
     [key |-> "sort_order",    text |-> Formatted(d, "sort_order")] >>

AptIds == 1..MaxApts

\* SELECT * FROM apartments WHERE id=$1 finds a row
Exists(apt_id) == apt_id \in 1..Len(apartments)

(***************************************************************************)
(* Updates the users send                                                  *)
(***************************************************************************)
VIDEO_MIME == <<"v", "i", "d", "e", "o", "/">>
IMAGE_MIME == <<"i", "m", "a", "g", "e", "/">>

TextMessage(t) == [kind |-> "text", text |-> t, file |-> <<>>, mime |-> <<>>]
PhotoMessage(f) == [kind |-> "photo", text |-> <<>>, file |-> f, mime |-> <<>>]
VideoMessage(f) == [kind |-> "video", text |-> <<>>, file |-> f, mime |-> <<>>]
DocumentMessage(f, mime) == [kind |-> "document", text |-> <<>>, file |-> f, mime |-> mime]
StickerMessage == [kind |-> "sticker", text |-> <<>>, file |-> <<>>, mime |-> <<>>]

T_BLANK == <<" ">>
T_WORD == <<" ", "b", " ">>
T_NUMBER == <<"4">>
T_ZERO == <<"0">>
T_URL == HTTPS \o <<"m">>
T_LINES == <<"x", "\n">> \o HTTP \o <<"n">>
T_TAGS == <<"B", ",", " ", "q">>

\* what the operator sends while a step of this kind (or key) is open
InputsFor(step) ==
  IF step.kind = "media_upload"
  THEN {PhotoMessage(<<"p">>), DocumentMessage(<<"d">>, VIDEO_MIME), StickerMessage,
        TextMessage(T_LINES), TextMessage(T_WORD)}
  ELSE IF step.kind = "int"
  THEN {TextMessage(T_NUMBER), TextMessage(T_ZERO), TextMessage(T_WORD), TextMessage(T_BLANK)}
  ELSE IF step.kind = "url"
  THEN {TextMessage(T_URL), TextMessage(T_NUMBER), TextMessage(T_BLANK)}
  ELSE IF step.key = "tags"
  THEN {TextMessage(T_TAGS), TextMessage(T_BLANK)}
  ELSE {TextMessage(T_WORD), TextMessage(T_BLANK), PhotoMessage(<<"p">>)}

Inputs(u) == InputsFor(StepAt(Get(data[u], "wizard_index", 0)))

\* the text branch of the media handler taking every non-empty line
AcceptedMedia_all_lines(m) ==
  IF m.kind = "photo" THEN <<[type |-> PHOTO_KIND, value |-> m.file]>>
  ELSE IF m.kind = "video" THEN <<[type |-> VIDEO_KIND, value |-> m.file]>>
  ELSE IF m.kind = "document"
  THEN IF startswith(lower(m.mime), IMAGE_MIME) THEN <<[type |-> PHOTO_KIND, value |-> m.file]>>
       ELSE IF startswith(lower(m.mime), VIDEO_MIME) THEN <<[type |-> VIDEO_KIND, value |-> m.file]>>
       ELSE <<[type |-> DOCUMENT_KIND, value |-> m.file]>>
  ELSE IF m.text # <<>>
  THEN MediaUrlItems(StrippedNonEmpty(splitlines(m.text)))
  ELSE <<>>

\* the items msg_apartment_wizard_media adds for one message
AcceptedMedia(m) ==
  IF m.kind = "photo" THEN <<[type |-> PHOTO_KIND, value |-> m.file]>>
  ELSE IF m.kind = "video" THEN <<[type |-> VIDEO_KIND, value |-> m.file]>>
  ELSE IF m.kind = "document"
  THEN IF startswith(lower(m.mime), IMAGE_MIME) THEN <<[type |-> PHOTO_KIND, value |-> m.file]>>
       ELSE IF startswith(lower(m.mime), VIDEO_MIME) THEN <<[type |-> VIDEO_KIND, value |-> m.file]>>
       ELSE <<[type |-> DOCUMENT_KIND, value |-> m.file]>>
  ELSE IF m.text # <<>>
  THEN MediaUrlItems(SelectSeqHttp(StrippedNonEmpty(splitlines(m.text))))
  ELSE <<>>

(***************************************************************************)
(* Handlers                                                                *)
(***************************************************************************)
\* replies that several handlers give
NO_ACCESS == "no_access"     \* call.answer("Нет доступа")
NO_REPLY == "no_reply"       \* the handler returns without an answer

\* wizard_advance sends build_apartment_preview_text(final_data) when it
\* takes the session into the preview; no other step sends a preview
PreviewSent(u, s) ==
  IF s.fsm = "preview" /\ fsm[u] # "preview"
  THEN build_apartment_preview_text(s.data)
  ELSE <<>>

\* the handler of an update of u leaves u's session as s and answers reply
\* (for a handler that raised: the failure the dispatcher logs)
Leave(u, s, reply) ==
  /\ fsm' = [fsm EXCEPT ![u] = s.fsm]
  /\ data' = [data EXCEPT ![u] = s.data]
  /\ last' = [user |-> u, from |-> fsm[u], reply |-> reply]
  /\ sent' = PreviewSent(u, s)
  /\ UNCHANGED <<catalogVars, promoVars, tasks, mailVars, boot, dbVars>>

\* admin:apt:add without the state.clear() that opens it
cb_admin_apt_add_merging(u) ==
  /\ UNCHANGED <<apartments, commits>>
  /\ IF u \notin ADMIN_IDS
     THEN Leave(u, Session(u), NO_ACCESS)
     ELSE LET s0 == Session(u)
              s1 == [s0 EXCEPT !.data = Update(s0.data, "wizard_index" :> 0 @@ "wizard_mode" :> "add")]
          IN  Leave(u, wizard_show_step(s1), "add_intro")

\* admin:apt:add
cb_admin_apt_add(u) ==
  /\ UNCHANGED <<apartments, commits>>
  /\ IF u \notin ADMIN_IDS
     THEN Leave(u, Session(u), NO_ACCESS)
     ELSE LET s0 == Clear(Session(u))
              s1 == [s0 EXCEPT !.data = Update(s0.data, "wizard_index" :> 0 @@ "wizard_mode" :> "add")]
          IN  Leave(u, wizard_show_step(s1), "add_intro")

\* admin:apt:wizard:<id>
cb_admin_apt_wizard(u, apt_id) ==
  /\ UNCHANGED <<apartments, commits>>
  /\ IF u \notin ADMIN_IDS
     THEN Leave(u, Session(u), NO_ACCESS)
     ELSE IF ~Exists(apt_id)
     THEN Leave(u, Session(u), "apartment_not_found")
     ELSE LET defaults == apartment_wizard_defaults_from_apartment(apartments[apt_id])
              s0 == Clear(Session(u))
              s1 == [s0 EXCEPT !.data = Update(s0.data,
                        "wizard_index" :> 0 @@ "wizard_mode" :> "edit"
                        @@ "wizard_apartment_id" :> apt_id @@ defaults)]
          IN  Leave(u, wizard_show_step(s1), "edit_intro")

\* aptw:cancel
cb_apartment_wizard_cancel(u) ==
  /\ UNCHANGED <<apartments, commits>>
  /\ Leave(u, Clear(Session(u)), "wizard_stopped")

\* aptw:pick:<value> without the check of the FSM state: a selection moves
\* the run on from whatever step it stands at
cb_apartment_wizard_pick_unchecked(u, value) ==
  /\ UNCHANGED <<apartments, commits>>
  /\ IF u \notin ADMIN_IDS
     THEN Leave(u, Session(u), NO_ACCESS)
     ELSE Leave(u, wizard_advance(Session(u)), "pick_saved")

\* aptw:pick:<value>
cb_apartment_wizard_pick(u, value) ==
  /\ UNCHANGED <<apartments, commits>>
  /\ IF u \notin ADMIN_IDS
     THEN Leave(u, Session(u), NO_ACCESS)
     ELSE IF fsm[u] # "waiting_choice"
     THEN Leave(u, Session(u), "choice_inactive")
     ELSE LET s == Session(u)
              key == StepAt(Get(s.data, "wizard_index", 0)).key
          IN  IF value = "custom"
              THEN Leave(u, wizard_send_prompt([s EXCEPT !.data = Update(s.data, "custom_step_key" :> key),
                                                         !.fsm = "waiting_text"]), "enter_custom_value")
              ELSE Leave(u, wizard_advance([s EXCEPT !.data = Update(s.data, key :> value)]), "pick_saved")

\* aptw:media:done
cb_apartment_wizard_media_done(u) ==
  /\ UNCHANGED <<apartments, commits>>
  /\ IF u \notin ADMIN_IDS
     THEN Leave(u, Session(u), NO_ACCESS)
     ELSE IF fsm[u] # "waiting_media"
     THEN Leave(u, Session(u), "not_media_stage")
     ELSE Leave(u, wizard_advance(Session(u)), "media_saved")

\* the media handler keeping only the items of the last submission
msg_apartment_wizard_media_replacing(u, m) ==
  /\ fsm[u] = "waiting_media"
  /\ UNCHANGED <<apartments, commits>>
  /\ LET s == Session(u)
         added == AcceptedMedia(m)
     IN  IF u \notin ADMIN_IDS
         THEN Leave(u, s, NO_REPLY)
         ELSE IF Len(added) = 0
         THEN Leave(u, s, "send_media")
         ELSE /\ Len(added) <= MaxMedia
              /\ Leave(u, wizard_show_step([s EXCEPT !.data =
                          Update(s.data, "media_items" :> added)]), "media_added")

\* the media handler ending the step itself after an accepted submission
msg_apartment_wizard_media_advancing(u, m) ==
  /\ fsm[u] = "waiting_media"
  /\ UNCHANGED <<apartments, commits>>
  /\ LET s == Session(u)
         media_items == Get(s.data, "media_items", <<>>)
         added == AcceptedMedia(m)
     IN  IF u \notin ADMIN_IDS
         THEN Leave(u, s, NO_REPLY)
         ELSE IF Len(added) = 0
         THEN Leave(u, s, "send_media")
         ELSE /\ Len(media_items) + Len(added) <= MaxMedia
              /\ Leave(u, wizard_advance([s EXCEPT !.data =
                          Update(s.data, "media_items" :> (media_items \o added))]), "media_added")

\* a message while the session is in waiting_media
msg_apartment_wizard_media(u, m) ==
  /\ fsm[u] = "waiting_media"
  /\ UNCHANGED <<apartments, commits>>
  /\ LET s == Session(u)
         idx == Get(s.data, "wizard_index", 0)
         media_items == Get(s.data, "media_items", <<>>)
         added == AcceptedMedia(m)
     IN  IF u \notin ADMIN_IDS
         THEN Leave(u, s, NO_REPLY)
         ELSE IF idx >= N
         THEN Leave(u, s, NO_REPLY)
         ELSE IF StepAt(idx).kind # "media_upload"
         THEN Leave(u, s, "not_media_upload_step")
         ELSE IF Len(added) = 0
         THEN Leave(u, s, "send_media")
         ELSE /\ Len(media_items) + Len(added) <= MaxMedia
              /\ Leave(u, wizard_show_step([s EXCEPT !.data =
                          Update(s.data, "media_items" :> (media_items \o added))]), "media_added")

\* the text handler storing a text as it was sent, without strip
msg_apartment_wizard_text_unstripped(u, m) ==
  /\ fsm[u] = "waiting_text"
  /\ UNCHANGED <<apartments, commits>>
  /\ LET s == Session(u)
         raw == strip(m.text)
         step == StepAt(Get(s.data, "wizard_index", 0))
         value == IF step.kind = "int" THEN int(raw) ELSE raw
         invalid == \/ step.kind = "int" /\ ~isdigit(raw)
                    \/ step.kind = "url" /\ ~IsHttpUrl(raw)
     IN  IF u \notin ADMIN_IDS
         THEN Leave(u, s, NO_REPLY)
         ELSE IF raw = <<>>
         THEN Leave(u, s, "empty_value")
         ELSE IF invalid
         THEN Leave(u, s, IF step.kind = "int" THEN "need_integer" ELSE "need_url")
         ELSE Leave(u, wizard_advance([s EXCEPT !.data =
                     Update(s.data, step.key :> (IF step.kind = "int" THEN value ELSE m.text)
                                    @@ "custom_step_key" :> None)]),
                    "value_stored")

\* the text handler without the checks of the int and url kinds: a text that
\* spells no number counts as 0 and any text passes for a link
msg_apartment_wizard_text_unvalidated(u, m) ==
  /\ fsm[u] = "waiting_text"
  /\ UNCHANGED <<apartments, commits>>
  /\ LET s == Session(u)
         raw == strip(m.text)
         step == StepAt(Get(s.data, "wizard_index", 0))
         value == IF step.kind # "int" THEN raw ELSE IF isdigit(raw) THEN int(raw) ELSE 0
     IN  IF u \notin ADMIN_IDS
         THEN Leave(u, s, NO_REPLY)
         ELSE IF raw = <<>>
         THEN Leave(u, s, "empty_value")
         ELSE Leave(u, wizard_advance([s EXCEPT !.data =
                     Update(s.data, step.key :> value @@ "custom_step_key" :> None)]),
                    "value_stored")

\* a message while the session is in waiting_text
msg_apartment_wizard_text(u, m) ==
  /\ fsm[u] = "waiting_text"
  /\ UNCHANGED <<apartments, commits>>
  /\ LET s == Session(u)
         raw == strip(m.text)
         step == StepAt(Get(s.data, "wizard_index", 0))
         key == IF Get(s.data, "custom_step_key", None) # None
                THEN s.data["custom_step_key"] ELSE step.key
         value == IF step.kind = "int" THEN int(raw) ELSE raw
         invalid == \/ step.kind = "int" /\ ~isdigit(raw)
                    \/ step.kind = "url" /\ ~IsHttpUrl(raw)
     IN  IF u \notin ADMIN_IDS
         THEN Leave(u, s, NO_REPLY)
         ELSE IF raw = <<>>
         THEN Leave(u, s, "empty_value")
         ELSE IF invalid
         THEN Leave(u, s, IF step.kind = "int" THEN "need_integer" ELSE "need_url")
         ELSE Leave(u, wizard_advance([s EXCEPT !.data =
                     Update(s.data, key :> value @@ "custom_step_key" :> None)]), "value_stored")

\* an UPDATE without its WHERE id=$12
CommitWrite_all_rows(d) ==
  IF Get(d, "wizard_mode", "add") = "edit" /\ Get(d, "wizard_apartment_id", 0) # 0
  THEN [i \in 1..Len(apartments) |-> UpdatedRow(apartments[i], CommitColumns(d))]
  ELSE Append(apartments, InsertedRow(CommitColumns(d)))

\* the apartments table after the statement of a commit
CommitWrite(d) ==
  IF Get(d, "wizard_mode", "add") = "edit" /\ Get(d, "wizard_apartment_id", 0) # 0
  THEN [i \in 1..Len(apartments) |->
          IF i = d["wizard_apartment_id"]
          THEN UpdatedRow(apartments[i], CommitColumns(d)) ELSE apartments[i]]
  ELSE Append(apartments, InsertedRow(CommitColumns(d)))

\* a save that clears the session before it runs its statement
preview_save_clearing_first(u, db_ok) ==
  LET s == Session(u)
  IN  IF ~db_ok
      THEN /\ UNCHANGED <<apartments, commits>>
           /\ Leave(u, Clear(s), "save_failed")
      ELSE /\ commits < MaxCommits
           /\ Len(CommitWrite(s.data)) <= MaxApts
           /\ apartments' = CommitWrite(s.data)
           /\ commits' = commits + 1
           /\ Leave(u, Clear(s), "apartment_saved")

\* aptw:preview:save: no check of the FSM state precedes the write
preview_save(u, db_ok) ==
  LET s == Session(u)
  IN  IF ~db_ok
      THEN /\ UNCHANGED <<apartments, commits>>
           /\ Leave(u, s, "save_failed")
      ELSE /\ commits < MaxCommits
           /\ Len(CommitWrite(s.data)) <= MaxApts
           /\ apartments' = CommitWrite(s.data)
           /\ commits' = commits + 1
           /\ Leave(u, Clear(s), "apartment_saved")

\* a restart without the state.clear() that opens it
preview_restart_keeping(u, db_ok) ==
  LET s == Session(u)
      mode == Get(s.data, "wizard_mode", "add")
      apt_id == Get(s.data, "wizard_apartment_id", 0)
      add == [s EXCEPT !.data = Update(s.data, "wizard_index" :> 0 @@ "wizard_mode" :> "add")]
  IN  /\ UNCHANGED <<apartments, commits>>
      /\ IF mode = "edit" /\ apt_id # 0
         THEN IF ~db_ok
              THEN Leave(u, s, "restart_failed")
              ELSE IF Exists(apt_id)
              THEN Leave(u, wizard_show_step([s EXCEPT !.data = Update(s.data,
                            "wizard_index" :> 0 @@ "wizard_mode" :> "edit"
                            @@ "wizard_apartment_id" :> apt_id
                            @@ apartment_wizard_defaults_from_apartment(apartments[apt_id]))]),
                         "restarted")
              ELSE Leave(u, wizard_show_step(add), "restarted")
         ELSE Leave(u, wizard_show_step(add), "restarted")

\* aptw:preview:restart
preview_restart(u, db_ok) ==
  LET s == Session(u)
      mode == Get(s.data, "wizard_mode", "add")
      apt_id == Get(s.data, "wizard_apartment_id", 0)
      s0 == Clear(s)
      add == [s0 EXCEPT !.data = Update(s0.data, "wizard_index" :> 0 @@ "wizard_mode" :> "add")]
  IN  /\ UNCHANGED <<apartments, commits>>
      /\ IF mode = "edit" /\ apt_id # 0
         THEN IF ~db_ok
              THEN Leave(u, s0, "restart_failed")
              ELSE IF Exists(apt_id)
              THEN Leave(u, wizard_show_step([s0 EXCEPT !.data = Update(s0.data,
                            "wizard_index" :> 0 @@ "wizard_mode" :> "edit"
                            @@ "wizard_apartment_id" :> apt_id
                            @@ apartment_wizard_defaults_from_apartment(apartments[apt_id]))]),
                         "restarted")
              ELSE Leave(u, wizard_show_step(add), "restarted")
         ELSE Leave(u, wizard_show_step(add), "restarted")

\* aptw:preview:<action>
cb_apartment_wizard_preview(u, action, db_ok) ==
  IF u \notin ADMIN_IDS
  THEN /\ UNCHANGED <<apartments, commits>>
       /\ Leave(u, Session(u), NO_ACCESS)
  ELSE IF action = "cancel"
  THEN /\ UNCHANGED <<apartments, commits>>
       /\ Leave(u, Clear(Session(u)), "add_cancelled")
  ELSE IF action = "restart"
  THEN preview_restart(u, db_ok)
  ELSE preview_save(u, db_ok)

\* a toggle that also clears the session of the operator
cb_admin_apt_toggle_clearing(u, apt_id) ==
  /\ apartments' = [i \in 1..Len(apartments) |->
                      IF i = apt_id
                      THEN [apartments[i] EXCEPT !.is_active = ~apartments[i].is_active]
                      ELSE apartments[i]]
  /\ UNCHANGED commits
  /\ Leave(u, Clear(Session(u)), "status_changed")

\* admin:apt:toggle:<id>
cb_admin_apt_toggle(u, apt_id) ==
  /\ apartments' = [i \in 1..Len(apartments) |->
                      IF i = apt_id
                      THEN [apartments[i] EXCEPT !.is_active = ~apartments[i].is_active]
                      ELSE apartments[i]]
  /\ UNCHANGED commits
  /\ Leave(u, Session(u), "status_changed")

(***************************************************************************)
(* The admin's edit of one column                                          *)
(***************************************************************************)
\* the apartments table after UPDATE apartments SET <col>=v WHERE id=apt_id
SetColumn(apt_id, col, v) ==
  [i \in 1..Len(apartments) |->
     IF i = apt_id THEN [apartments[i] EXCEPT ![col] = v] ELSE apartments[i]]

\* admin:apt:edit:<id>:<field>
cb_admin_apt_edit(u, apt_id, field) ==
  /\ UNCHANGED <<apartments, commits>>
  /\ Leave(u, [fsm |-> "waiting_field_value",
               data |-> Update(data[u], "apt_id" :> apt_id @@ "field" :> field)],
           "edit_field")

\* a message while the session is in waiting_field_value (int(value) raises
\* for a text that is not a number: the handler ends there)
msg_admin_apt_field(u, m) ==
  /\ fsm[u] = "waiting_field_value"
  /\ UNCHANGED commits
  /\ LET s == Session(u)
         value == strip(m.text)
     IN  IF u \notin ADMIN_IDS
         THEN UNCHANGED apartments /\ Leave(u, s, NO_REPLY)
         ELSE IF ~Has(s.data, "apt_id") \/ ~Has(s.data, "field")
         THEN UNCHANGED apartments /\ Leave(u, s, "update_failed")
         ELSE LET apt_id == s.data["apt_id"]
                  field == s.data["field"]
              IN  IF field = "sort_order"
                  THEN IF isdigit(value)
                       THEN /\ apartments' = SetColumn(apt_id, "sort_order", int(value))
                            /\ Leave(u, Clear(s), "field_updated")
                       ELSE UNCHANGED apartments /\ Leave(u, s, "update_failed")
                  ELSE IF field = "tags"
                  THEN /\ apartments' = SetColumn(apt_id, "tags",
                                           LowerAll(StrippedNonEmpty(split(value, ","))))
                       /\ Leave(u, Clear(s), "field_updated")
                  ELSE IF field \in {"channel_post_url", "map_url"}
                  THEN /\ apartments' = SetColumn(apt_id, field, value)
                       /\ Leave(u, Clear(s), "field_updated")
                  ELSE UNCHANGED apartments /\ Leave(u, s, "field_unsupported")

\* fields of the edit buttons, one for each branch of the handler, and one
\* that has no branch
EditFields == {"sort_order", "tags", "map_url", "title"}

\* what the admin sends as the new value of a field
FieldInputs(u) ==
  LET field == Get(data[u], "field", None)
  IN  IF field = "sort_order" THEN {TextMessage(T_NUMBER), TextMessage(T_WORD)}
      ELSE IF field = "tags" THEN {TextMessage(T_TAGS)}
      ELSE {TextMessage(T_URL)}

(***************************************************************************)
(* Handlers of other flows that touch the same session                     *)
(***************************************************************************)
\* admin:catalog_button
cb_admin_catalog_button(u) ==
  /\ UNCHANGED <<apartments, commits>>
  /\ IF u \notin ADMIN_IDS
     THEN Leave(u, Session(u), NO_ACCESS)
     ELSE Leave(u, Clear(Session(u)), "catalog_button_menu")

\* dates:<id>
cb_dates(u, apt_id) ==
  /\ UNCHANGED <<apartments, commits>>
  /\ LET s == Session(u)
     IN  Leave(u, [s EXCEPT !.fsm = "DateRequestState.waiting_text",
                            !.data = Update(s.data, "apartment_id" :> apt_id
                                            @@ "date_prompt_message_id" :> CARD_MESSAGE_ID)],
               "dates_prompt")

\* admin:channel_post
cb_admin_channel_post(u) ==
  /\ UNCHANGED <<apartments, commits>>
  /\ IF u \notin ADMIN_IDS
     THEN Leave(u, Session(u), NO_ACCESS)
     ELSE Leave(u, [Session(u) EXCEPT !.fsm = "AdminChannelPostState.waiting_media",
                                      !.data = "channel_post_media" :> <<>>],
                "channel_post_intro")

\* req:reply:<id>
cb_req_reply(u, req_id) ==
  /\ UNCHANGED <<apartments, commits>>
  /\ LET s == Session(u)
     IN  Leave(u, [s EXCEPT !.fsm = "AdminReplyState.waiting_reply",
                            !.data = Update(s.data, "req_id" :> req_id
                                            @@ "req_kind" :> "date_request"
                                            @@ "reply_back_cb" :> "admin:requests")],
               "reply_prompt")

(***************************************************************************)
(* The specification                                                       *)
(***************************************************************************)
\* a session of an earlier run of the process whose commit left SeedRow
SeedData ==
  "media_items" :> <<[type |-> PHOTO_KIND, value |-> <<"s">>]>>
  @@ "header_text" :> <<"c">> @@ "short_desc" :> <<"c">> @@ "quote_desc" :> <<"c">>
  @@ "features_text" :> <<"c">> @@ "guests_max" :> 2 @@ "tags" :> <<"c">>
  @@ "map_url" :> (HTTP \o <<"c">>)

SeedRow == InsertedRow(CommitColumns(SeedData))

ReqIds == {1}
DateAptIds == {1}
PreviewActions == {"cancel", "restart", "save"}

\* user_filters.get(user_id, {"tags": set()})
DEFAULT_FILTER == [guests |-> None, tags |-> {}]

\* nothing rendered yet
NO_RESULT == [user |-> 0, page |-> 0, rows |-> <<>>, total |-> 0]

\* the catalog screen before its first click
CatalogOff ==
  /\ user_filters = [u \in Users |-> DEFAULT_FILTER]
  /\ result = NO_RESULT
  /\ now = 0
  /\ last_click_at = <<>>
  /\ registered = [u \in Users |-> <<>>]

\* the users table holds MaxUsers users (tg_user_id 1..MaxUsers)
MaxUsers == 3

\* last_reminder_at IS NULL, and no reminder delivered yet
NEVER == -1

\* no row of the users table for this id
NO_USER == [present |-> FALSE, phone |-> FALSE, inviter_user_id |-> 0,
            reminders_opt_out |-> FALSE, last_seen_at |-> 0, last_reminder_at |-> NEVER]

\* the tables with a user_id column that hold nothing else the model reads
LogTables == {"date_requests", "entry_date_requests", "click_events", "events"}

\* the tables of the users and of what they did, all empty
DbOff ==
  /\ users = [uid \in 1..MaxUsers |-> NO_USER]
  /\ referrals = {}
  /\ giveaway_entries = {}
  /\ stored = [t \in LogTables |-> {}]

\* the settings main() requires, and two of those it does not
REQUIRED_ENV == {"BOT_TOKEN", "DATABASE_URL", "BOOKING_URL", "WELCOME_TEXT", "BUDGET_THRESHOLDS"}
Settings == REQUIRED_ENV \cup {"ADMIN_IDS", "CHANNEL_ID"}

\* main() has come to dp.start_polling with every setting in place
Polling ==
  boot = [env |-> Settings, pc |-> "polling",
          opened |-> {"pool", "schema", "reminders", "polling"}]

\* nothing mailed yet
NO_MAIL == [by |-> "none", rows |-> <<>>, tried |-> <<>>, failed |-> {}, sent |-> 0]

\* every user reachable and no mailing run
MailOff ==
  /\ is_blocked = [uid \in 1..MaxUsers |-> FALSE]
  /\ outbox = NO_MAIL

\* no promo code in the pool and no request for one
PromoOff ==
  /\ promo_codes = <<>>
  /\ requests = <<>>

Init ==
  /\ sent = <<>>
  /\ tasks = <<>>
  /\ MailOff
  /\ DbOff
  /\ Polling
  /\ CatalogOff
  /\ PromoOff
  /\ fsm = [u \in Users |-> None]
  /\ data = [u \in Users |-> EmptyData]
  /\ apartments \in {<<>>, <<SeedRow>>, <<SeedRow, SeedRow>>}
  /\ commits = 0
  /\ last = [user |-> Admin, from |-> None, reply |-> NO_REPLY]

\* the wizard's handlers
WizardNext ==
  \/ \E u \in Users : cb_admin_apt_add(u)
  \/ \E u \in Users, apt_id \in AptIds : cb_admin_apt_wizard(u, apt_id)
  \/ \E u \in Users : cb_apartment_wizard_cancel(u)
  \/ \E u \in Users : cb_apartment_wizard_pick(u, <<"x">>)
  \/ \E u \in Users : cb_apartment_wizard_media_done(u)
  \/ \E u \in Users : fsm[u] = "waiting_media" /\ \E m \in Inputs(u) : msg_apartment_wizard_media(u, m)
  \/ \E u \in Users : fsm[u] = "waiting_text" /\ \E m \in Inputs(u) : msg_apartment_wizard_text(u, m)
  \/ \E u \in Users, action \in PreviewActions, db_ok \in BOOLEAN :
        cb_apartment_wizard_preview(u, action, db_ok)

\* a run of the model ends with its MaxCommits-th commit
Running == commits < MaxCommits

Next ==
  \/ Running /\ \E u \in Users : cb_admin_apt_add(u)
  \/ Running /\ \E u \in Users, apt_id \in AptIds : cb_admin_apt_wizard(u, apt_id)
  \/ Running /\ \E u \in Users : cb_apartment_wizard_cancel(u)
  \/ Running /\ \E u \in Users : cb_apartment_wizard_pick(u, <<"x">>)
  \/ Running /\ \E u \in Users : cb_apartment_wizard_media_done(u)
  \/ Running /\ \E u \in Users : fsm[u] = "waiting_media" /\ \E m \in Inputs(u) : msg_apartment_wizard_media(u, m)
  \/ Running /\ \E u \in Users : fsm[u] = "waiting_text" /\ \E m \in Inputs(u) : msg_apartment_wizard_text(u, m)
  \/ Running /\ \E u \in Users, action \in PreviewActions, db_ok \in BOOLEAN :
        cb_apartment_wizard_preview(u, action, db_ok)

Spec == Init /\ [][Next]_vars

\* The wizard beside the other flows that use the same session.  The table
\* starts with the commits of the run used up, so that it stays as it is.
InitFlows ==
  /\ sent = <<>>
  /\ tasks = <<>>
  /\ MailOff
  /\ DbOff
  /\ Polling
  /\ CatalogOff
  /\ PromoOff
  /\ fsm = [u \in Users |-> None]
  /\ data = [u \in Users |-> EmptyData]
  /\ apartments \in {<<>>, <<SeedRow>>}
  /\ commits = MaxCommits
  /\ last = [user |-> Admin, from |-> None, reply |-> NO_REPLY]

NextFlows ==
  \/ WizardNext
  \/ \E u \in Users, apt_id \in AptIds : cb_admin_apt_toggle(u, apt_id)
  \/ \E u \in Users : cb_admin_catalog_button(u)
  \/ \E u \in Users, apt_id \in DateAptIds : cb_dates(u, apt_id)
  \/ \E u \in Users : cb_admin_channel_post(u)
  \/ \E u \in Users, req_id \in ReqIds : cb_req_reply(u, req_id)

SpecFlows == InitFlows /\ [][NextFlows]_vars

\* The writers of the apartments table side by side: the wizard's commit, the
\* edit of one column and the toggle.  The table starts empty or with a row
\* that a commit has written.
LinkData == [SeedData EXCEPT !["media_items"] =
               << [type |-> PHOTO_KIND, value |-> <<"s">>],
                  [type |-> URL_KIND, value |-> HTTPS \o <<"s">>] >>]

InitTable ==
  /\ sent = <<>>
  /\ tasks = <<>>
  /\ MailOff
  /\ DbOff
  /\ Polling
  /\ CatalogOff
  /\ PromoOff
  /\ fsm = [u \in Users |-> None]
  /\ data = [u \in Users |-> EmptyData]
  /\ apartments \in {<<>>, <<InsertedRow(CommitColumns(LinkData))>>}
  /\ commits = 0
  /\ last = [user |-> Admin, from |-> None, reply |-> NO_REPLY]

NextTable ==
  \/ Running /\ \E u \in Users : cb_admin_apt_add(u)
  \/ Running /\ \E u \in Users, apt_id \in AptIds : cb_admin_apt_wizard(u, apt_id)
  \/ Running /\ \E u \in Users : cb_apartment_wizard_cancel(u)
  \/ Running /\ \E u \in Users : cb_apartment_wizard_pick(u, <<"x">>)
  \/ Running /\ \E u \in Users : cb_apartment_wizard_media_done(u)
  \/ Running /\ \E u \in Users : fsm[u] = "waiting_media" /\ \E m \in Inputs(u) : msg_apartment_wizard_media(u, m)
  \/ Running /\ \E u \in Users : fsm[u] = "waiting_text" /\ \E m \in Inputs(u) : msg_apartment_wizard_text(u, m)
  \/ Running /\ \E u \in Users, action \in PreviewActions, db_ok \in BOOLEAN :
        cb_apartment_wizard_preview(u, action, db_ok)
  \/ Running /\ \E u \in Users, apt_id \in AptIds : cb_admin_apt_toggle(u, apt_id)
  \/ Running /\ \E u \in ADMIN_IDS, apt_id \in AptIds, field \in EditFields : cb_admin_apt_edit(u, apt_id, field)
  \/ Running /\ \E u \in Users : fsm[u] = "waiting_field_value" /\ \E m \in FieldInputs(u) : msg_admin_apt_field(u, m)

SpecTable == InitTable /\ [][NextTable]_vars

(***************************************************************************)
(* The catalog screen                                                      *)
(***************************************************************************)
\* page_size of catalog_query and catalog_kb
PAGE_SIZE == 5

\* the number of a guests bucket stands for, 0 for any other value
GuestsThreshold(guests) ==
  IF guests = "1-2" THEN 2
  ELSE IF guests = "3-4" THEN 4
  ELSE IF guests = "5+" THEN 5
  ELSE 0

\* a WHERE clause that lets inactive rows through
Where_any_status(rows, filters, i) ==
  LET tags == {lower(strip(t)) : t \in {x \in filters.tags : strip(x) # <<>>}}
  IN  /\ GuestsThreshold(filters.guests) # 0
           => rows[i].guests_max >= GuestsThreshold(filters.guests)
      /\ tags # {} => \E k \in 1..Len(rows[i].tags) : lower(rows[i].tags[k]) \in tags

\* the WHERE clause catalog_query builds from the filters, for the row of id i
Where(rows, filters, i) ==
  LET tags == {lower(strip(t)) : t \in {x \in filters.tags : strip(x) # <<>>}}
  IN  /\ rows[i].is_active
      /\ GuestsThreshold(filters.guests) # 0
           => rows[i].guests_max >= GuestsThreshold(filters.guests)
      /\ tags # {} => \E k \in 1..Len(rows[i].tags) : lower(rows[i].tags[k]) \in tags

\* ORDER BY sort_order, id of the rows whose ids are in S
RECURSIVE OrderBy(_, _)
OrderBy(rows, S) ==
  IF S = {} THEN <<>>
  ELSE LET first == CHOOSE i \in S : \A j \in S :
                       \/ rows[i].sort_order < rows[j].sort_order
                       \/ rows[i].sort_order = rows[j].sort_order /\ i <= j
       IN  <<first>> \o OrderBy(rows, S \ {first})

\* an offset that counts the pages from 0
Offset_from_zero(page, page_size) == page * page_size

\* offset = (page - 1) * page_size
Offset(page, page_size) == (page - 1) * page_size

\* catalog_query: the ids of the rows of the page, and the total
catalog_query(rows, filters, page, page_size) ==
  LET ordered == OrderBy(rows, {i \in 1..Len(rows) : Where(rows, filters, i)})
      offset == Offset(page, page_size)
      upto == IF offset + page_size < Len(ordered) THEN offset + page_size ELSE Len(ordered)
  IN  [ rows |-> IF offset >= Len(ordered) THEN <<>> ELSE SubSeq(ordered, offset + 1, upto),
        total |-> Len(ordered) ]

\* an update of the catalog screen leaves everything else as it is
CatalogFrame == UNCHANGED <<fsm, data, apartments, commits, last, sent, promoVars, tasks, mailVars, boot, dbVars>>

\* render_catalog_for_call: the screen shows the page of the user's filters
render_catalog_for_call(u, page) ==
  LET q == catalog_query(apartments, user_filters[u], page, PAGE_SIZE)
  IN  result' = [user |-> u, page |-> page, rows |-> q.rows, total |-> q.total]

\* flt:g:<value>
cb_filter_guests(u, value) ==
  /\ user_filters' = [user_filters EXCEPT ![u].guests = value]
  /\ UNCHANGED <<result, now, last_click_at, registered>>
  /\ CatalogFrame

\* flt:t:<tag>
cb_filter_tag(u, tag) ==
  /\ user_filters' = [user_filters EXCEPT ![u].tags =
                        IF tag \in @ THEN @ \ {tag} ELSE @ \cup {tag}]
  /\ UNCHANGED <<result, now, last_click_at, registered>>
  /\ CatalogFrame

\* flt:reset
cb_filter_reset(u) ==
  /\ user_filters' = [user_filters EXCEPT ![u] = DEFAULT_FILTER]
  /\ UNCHANGED <<result, now, last_click_at, registered>>
  /\ CatalogFrame

\* flt:apply
cb_filter_apply(u) ==
  /\ render_catalog_for_call(u, 1)
  /\ UNCHANGED <<user_filters, now, last_click_at, registered>>
  /\ CatalogFrame

\* the page buttons of the screen, and one page further
MaxPage == 3

\* catalog:<page> for a click the throttle lets through, the clock aside
show_catalog_page(u, page) ==
  /\ render_catalog_for_call(u, page)
  /\ UNCHANGED <<user_filters, now, last_click_at, registered>>
  /\ CatalogFrame

\* rows the wizard, the toggle and the column edits leave in the table
CatalogRow(active, guests, tags, sort_order) ==
  [SeedRow EXCEPT !.is_active = active, !.guests_max = guests,
                  !.tags = tags, !.sort_order = sort_order]

CatalogRows ==
  << CatalogRow(TRUE, 1, <<<<"q">>>>, 2),
     CatalogRow(TRUE, 2, <<<<"b">>>>, 0),
     CatalogRow(FALSE, 5, <<<<"b">>, <<"q">>>>, 0),
     CatalogRow(TRUE, 4, <<>>, 1),
     CatalogRow(TRUE, 5, <<<<"b">>>>, 0),
     CatalogRow(TRUE, 3, <<<<"q">>, <<"b">>>>, 1),
     CatalogRow(TRUE, 6, <<<<"c">>>>, 0),
     CatalogRow(TRUE, 2, <<<<"q">>>>, 1) >>

\* the largest catalog
MaxCatalog == 7

\* the buckets and the tags of the filter buttons; B is a tag in upper case
FilterGuests == {"1-2", "3-4", "5+"}
FilterTags == {<<"q">>, <<"B">>}

\* The catalog query over catalogs of every size up to MaxCatalog, under the
\* filters the filter menu sets.
InitQuery ==
  /\ sent = <<>>
  /\ tasks = <<>>
  /\ MailOff
  /\ DbOff
  /\ Polling
  /\ CatalogOff
  /\ PromoOff
  /\ fsm = [u \in Users |-> None]
  /\ data = [u \in Users |-> EmptyData]
  /\ \E n \in 0..MaxCatalog :
        apartments = [i \in 1..n |-> CatalogRows[((i - 1) % Len(CatalogRows)) + 1]]
  /\ commits = 0
  /\ last = [user |-> Admin, from |-> None, reply |-> NO_REPLY]

NextQuery ==
  \/ \E u \in Users, value \in FilterGuests : cb_filter_guests(u, value)
  \/ \E u \in Users, tag \in FilterTags : cb_filter_tag(u, tag)
  \/ \E u \in Users : cb_filter_reset(u)
  \/ \E u \in Users : cb_filter_apply(u)
  \/ \E u \in Users, page \in 1..MaxPage : show_catalog_page(u, page)

SpecQuery == InitQuery /\ [][NextQuery]_vars

\* THROTTLE_SECONDS = 0.6, in tenths of a second
THROTTLE_SECONDS == 6

\* throttle(user_id, key) returns True: the pair has a click accepted less
\* than THROTTLE_SECONDS ago
Throttled(u, key) ==
  /\ <<u, key>> \in DOMAIN last_click_at
  /\ now - last_click_at[<<u, key>>] < THROTTLE_SECONDS

\* a throttle that notes the time of a click it suppresses too
throttle_refreshing(u, key) ==
  last_click_at' = (<<u, key>> :> now) @@ last_click_at

\* what throttle(user_id, key) does to last_click_at
throttle(u, key) ==
  last_click_at' = IF Throttled(u, key) THEN last_click_at
                   ELSE (<<u, key>> :> now) @@ last_click_at

\* catalog:<page>
cb_catalog(u, page) ==
  /\ throttle(u, "catalog")
  /\ IF Throttled(u, "catalog")
     THEN /\ UNCHANGED <<result, registered>>
          /\ last' = [user |-> u, from |-> fsm[u], reply |-> "too_fast"]
     ELSE /\ render_catalog_for_call(u, page)
          /\ registered' = [registered EXCEPT ![u] = Append(@, now)]
          /\ last' = [user |-> u, from |-> fsm[u], reply |-> "catalog_shown"]
  /\ UNCHANGED <<user_filters, now>>
  /\ UNCHANGED <<fsm, data, apartments, commits, sent, promoVars, tasks, mailVars, boot, dbVars>>

\* a tenth of a second passes
Tick ==
  /\ now' = now + 1
  /\ UNCHANGED <<user_filters, result, last_click_at, registered>>
  /\ CatalogFrame

\* the clock stops here
MaxTime == 8

\* The page buttons of the catalog under the clock.
InitThrottle ==
  /\ sent = <<>>
  /\ tasks = <<>>
  /\ MailOff
  /\ DbOff
  /\ Polling
  /\ CatalogOff
  /\ PromoOff
  /\ fsm = [u \in Users |-> None]
  /\ data = [u \in Users |-> EmptyData]
  /\ \E n \in {0, MaxCatalog} :
        apartments = [i \in 1..n |-> CatalogRows[((i - 1) % Len(CatalogRows)) + 1]]
  /\ commits = 0
  /\ last = [user |-> Admin, from |-> None, reply |-> NO_REPLY]

NextThrottle ==
  \/ \E u \in Users, page \in 1..2 : cb_catalog(u, page)
  \/ now < MaxTime /\ Tick

SpecThrottle == InitThrottle /\ [][NextThrottle]_vars

(***************************************************************************)
(* Welcome codes                                                           *)
(***************************************************************************)
\* the promo codes of the pool and the requests of one run
MaxCodes == 2
MaxRequests == 3

\* every other variable stays as it is
PromoFrame == UNCHANGED <<fsm, data, apartments, commits, last, sent, catalogVars, tasks, mailVars, boot, dbVars>>

\* SELECT COUNT(*) FROM promo_codes WHERE assigned_to=u AND kind='welcome'
WelcomeCount(u) ==
  Cardinality({i \in 1..Len(promo_codes) :
                 promo_codes[i].assigned_to = u /\ promo_codes[i].kind = "welcome"})

\* a request of u, from its first statement on.  during: the requests that
\* are being handled when this one begins
NewRequest(u, rejected) ==
  [ user |-> u,
    pc |-> IF rejected THEN "done" ELSE "fetchrow",
    row |-> 0,
    answer |-> IF rejected THEN "already_received" ELSE "",
    during |-> {j \in 1..Len(requests) : requests[j].pc # "done"} ]

\* promo:welcome without the check of the codes the user has
cb_welcome_without_check(u) ==
  /\ Len(requests) < MaxRequests
  /\ requests' = Append(requests, NewRequest(u, FALSE))
  /\ UNCHANGED promo_codes
  /\ PromoFrame

\* promo:welcome, up to the answer of its first statement
cb_welcome(u) ==
  /\ Len(requests) < MaxRequests
  /\ requests' = Append(requests, NewRequest(u, WelcomeCount(u) # 0))
  /\ UNCHANGED promo_codes
  /\ PromoFrame

\* promo:welcome, its second statement: the first free welcome code
cb_welcome_fetchrow(r) ==
  /\ requests[r].pc = "fetchrow"
  /\ LET free == {i \in 1..Len(promo_codes) :
                    promo_codes[i].kind = "welcome" /\ ~promo_codes[i].is_assigned}
     IN  requests' = [requests EXCEPT ![r] =
           IF free = {}
           THEN [@ EXCEPT !.pc = "done", !.answer = "no_codes"]
           ELSE [@ EXCEPT !.pc = "execute",
                          !.row = CHOOSE i \in free : \A j \in free : i <= j]]
  /\ UNCHANGED promo_codes
  /\ PromoFrame

\* promo:welcome, its third statement and the message with the code
cb_welcome_execute(r) ==
  /\ requests[r].pc = "execute"
  /\ promo_codes' = [promo_codes EXCEPT ![requests[r].row] =
                       [@ EXCEPT !.is_assigned = TRUE, !.assigned_to = requests[r].user]]
  /\ requests' = [requests EXCEPT ![r] = [@ EXCEPT !.pc = "done", !.answer = "code"]]
  /\ PromoFrame

\* Requests for a welcome code, handled side by side, over a pool of free
\* codes of two kinds.
InitPromo ==
  /\ sent = <<>>
  /\ tasks = <<>>
  /\ MailOff
  /\ DbOff
  /\ Polling
  /\ CatalogOff
  /\ fsm = [u \in Users |-> None]
  /\ data = [u \in Users |-> EmptyData]
  /\ apartments = <<>>
  /\ commits = 0
  /\ last = [user |-> Admin, from |-> None, reply |-> NO_REPLY]
  /\ requests = <<>>
  /\ \E n \in 0..MaxCodes : \E kinds \in [1..n -> {"welcome", "manual"}] :
        promo_codes = [i \in 1..n |->
                         [kind |-> kinds[i], is_assigned |-> FALSE, assigned_to |-> 0]]

NextPromo ==
  \/ \E u \in Users : cb_welcome(u)
  \/ \E r \in 1..Len(requests) : cb_welcome_fetchrow(r)
  \/ \E r \in 1..Len(requests) : cb_welcome_execute(r)

SpecPromo == InitPromo /\ [][NextPromo]_vars

(***************************************************************************)
(* Messages of the media step handled side by side                         *)
(***************************************************************************)
\* the messages of one run
MaxTasks == 2

\* every variable outside the session and the tasks stays as it is
MediaFrame == UNCHANGED <<apartments, commits, catalogVars, promoVars, mailVars, boot, dbVars>>

\* start_polling takes a message of u from the transport while u's session is
\* in waiting_media and starts the task that handles it
start_polling(u, m) ==
  /\ Len(tasks) < MaxTasks
  /\ fsm[u] = "waiting_media"
  /\ tasks' = Append(tasks, [user |-> u, msg |-> m, pc |-> "get_data", media_items |-> <<>>])
  /\ UNCHANGED <<fsm, data, last, sent>>
  /\ MediaFrame

\* the task t comes out of TouchUserMiddleware, the handler reads the session
\* and appends the accepted items to the list it has read
media_get_data(t) ==
  /\ tasks[t].pc = "get_data"
  /\ LET u == tasks[t].user
         d == data[u]
         idx == Get(d, "wizard_index", 0)
         added == AcceptedMedia(tasks[t].msg)
         reply == IF u \notin ADMIN_IDS \/ idx >= N THEN NO_REPLY
                  ELSE IF StepAt(idx).kind # "media_upload" THEN "not_media_upload_step"
                  ELSE IF Len(added) = 0 THEN "send_media"
                  ELSE ""
     IN  IF reply # ""
         THEN /\ tasks' = [tasks EXCEPT ![t].pc = "done"]
              /\ last' = [user |-> u, from |-> fsm[u], reply |-> reply]
         ELSE /\ Len(Get(d, "media_items", <<>>)) + Len(added) <= MaxMedia
              /\ tasks' = [tasks EXCEPT ![t].pc = "update_data",
                                        ![t].media_items = Get(d, "media_items", <<>>) \o added]
              /\ UNCHANGED last
  /\ UNCHANGED <<fsm, data, sent>>
  /\ MediaFrame

\* await state.update_data(media_items=media_items) of the task t
media_update_data(t) ==
  /\ tasks[t].pc = "update_data"
  /\ data' = [data EXCEPT ![tasks[t].user] =
                Update(@, "media_items" :> tasks[t].media_items)]
  /\ tasks' = [tasks EXCEPT ![t].pc = "wizard_show_step"]
  /\ UNCHANGED <<fsm, last, sent>>
  /\ MediaFrame

\* message.delete() and wizard_show_step of the task t
media_wizard_show_step(t) ==
  /\ tasks[t].pc = "wizard_show_step"
  /\ tasks' = [tasks EXCEPT ![t].pc = "done"]
  /\ LET u == tasks[t].user
         s == wizard_show_step(Session(u))
     IN  /\ fsm' = [fsm EXCEPT ![u] = s.fsm]
         /\ data' = [data EXCEPT ![u] = s.data]
         /\ last' = [user |-> u, from |-> fsm[u], reply |-> "media_added"]
  /\ UNCHANGED sent
  /\ MediaFrame

\* The operator has opened the wizard (admin:apt:add) and sends messages at
\* its media step; the tasks of the messages run side by side.
InitMedia ==
  /\ sent = <<>>
  /\ tasks = <<>>
  /\ MailOff
  /\ DbOff
  /\ Polling
  /\ CatalogOff
  /\ PromoOff
  /\ LET s == wizard_show_step([fsm |-> None,
                                data |-> Update(EmptyData, "wizard_index" :> 0 @@ "wizard_mode" :> "add")])
     IN  /\ fsm = [u \in Users |-> IF u = Admin THEN s.fsm ELSE None]
         /\ data = [u \in Users |-> IF u = Admin THEN s.data ELSE EmptyData]
  /\ apartments = <<>>
  /\ commits = 0
  /\ last = [user |-> Admin, from |-> None, reply |-> "add_intro"]

NextMedia ==
  \/ \E u \in Users : \E m \in Inputs(u) : start_polling(u, m)
  \/ \E t \in 1..Len(tasks) : media_get_data(t)
  \/ \E t \in 1..Len(tasks) : media_update_data(t)
  \/ \E t \in 1..Len(tasks) : media_wizard_show_step(t)

SpecMedia == InitMedia /\ [][NextMedia]_vars

(***************************************************************************)
(* Broadcasts and reminders                                                *)
(***************************************************************************)
\* every variable outside the session and the mailing stays as it is
MailFrame == UNCHANGED <<apartments, commits, catalogVars, promoVars, tasks, boot, dbVars>>

\* the buttons of the segment menu
Segments == {"all", "inactive", "view_no_book"}

\* the callbacks that begin with admin:bc: the three segments and the button
\* of the confirmation, admin:bc:confirm
BroadcastCallbacks == Segments \cup {"confirm"}

\* the ids of S in ascending order
Ascending(S) == SelectSeq([uid \in 1..MaxUsers |-> uid], LAMBDA uid : uid \in S)

\* SELECT tg_user_id FROM users WHERE is_blocked=FALSE AND <the users of chosen>
Unblocked(chosen) == Ascending({uid \in chosen : ~is_blocked[uid]})

\* for r in rows: try: send_message(uid, ...) except Exception: handle_blocked(db, uid)
\* fails: the recipients whose delivery raises
RECURSIVE send_each(_, _)
send_each(rows, fails) ==
  IF rows = <<>> THEN [tried |-> <<>>, failed |-> {}, sent |-> 0]
  ELSE LET rest == send_each(Tail(rows), fails)
           uid == Head(rows)
       IN  [tried |-> <<uid>> \o rest.tried,
            failed |-> (IF uid \in fails THEN {uid} ELSE {}) \cup rest.failed,
            sent |-> (IF uid \in fails THEN 0 ELSE 1) + rest.sent]

\* UPDATE users SET is_blocked=TRUE WHERE tg_user_id=uid, for every uid of failed
handle_blocked(failed) == [uid \in 1..MaxUsers |-> is_blocked[uid] \/ uid \in failed]

\* admin:bc:<segment>: the first handler registered for callback data that
\* starts with admin:bc:, so the dispatcher hands it admin:bc:confirm too
cb_admin_broadcast_segment(u, segment) ==
  /\ UNCHANGED <<apartments, commits>>
  /\ Leave(u, [fsm |-> "broadcast_waiting_text",
               data |-> Update(data[u], "segment" :> segment)], "enter_broadcast_text")

\* a message while the session is in AdminBroadcastState.waiting_text
msg_broadcast_text(u, m) ==
  /\ fsm[u] = "broadcast_waiting_text"
  /\ UNCHANGED <<apartments, commits>>
  /\ IF u \notin ADMIN_IDS
     THEN Leave(u, Session(u), NO_REPLY)
     ELSE Leave(u, [fsm |-> "broadcast_waiting_confirm",
                    data |-> Update(data[u], "broadcast_text" :> strip(m.text))],
                "check_broadcast_text")

\* the handler registered for admin:bc:confirm, after the handler of the
\* prefix admin:bc:, which takes every callback this one matches.  chosen: the users the segment's conditions on dates,
\* views and clicks select; fails: the recipients whose delivery raises
cb_broadcast_confirm(u, chosen, fails) ==
  /\ MailFrame
  /\ LET segment == Get(data[u], "segment", None)
         no_text == ~Has(data[u], "broadcast_text") \/ data[u]["broadcast_text"] = <<>>
         rows == IF segment = "all" THEN Unblocked(1..MaxUsers) ELSE Unblocked(chosen)
         run == send_each(rows, fails)
     IN  IF u \notin ADMIN_IDS
         THEN /\ last' = [user |-> u, from |-> fsm[u], reply |-> NO_ACCESS]
              /\ UNCHANGED <<fsm, data, sent, mailVars>>
         ELSE IF segment = None \/ no_text
         THEN /\ last' = [user |-> u, from |-> fsm[u], reply |-> "no_broadcast_data"]
              /\ UNCHANGED <<fsm, data, sent, mailVars>>
         ELSE /\ outbox' = [by |-> "broadcast", rows |-> rows, tried |-> run.tried,
                            failed |-> run.failed, sent |-> run.sent]
              /\ is_blocked' = handle_blocked(run.failed)
              /\ fsm' = [fsm EXCEPT ![u] = None]
              /\ data' = [data EXCEPT ![u] = EmptyData]
              /\ sent' = <<>>
              /\ last' = [user |-> u, from |-> fsm[u], reply |-> "broadcast_finished"]

\* one pass of reminders_loop.  chosen: the users its conditions on dates
\* select; fails: the recipients whose delivery raises
reminders_loop(chosen, fails) ==
  /\ MailFrame
  /\ LET rows == Unblocked(chosen)
         run == send_each(rows, fails)
     IN  /\ outbox' = [by |-> "reminders", rows |-> rows, tried |-> run.tried,
                       failed |-> run.failed, sent |-> run.sent]
         /\ is_blocked' = handle_blocked(run.failed)
  /\ UNCHANGED <<fsm, data, last, sent>>

\* The operator's broadcasts and the reminder passes over the users table.
InitMail ==
  /\ sent = <<>>
  /\ tasks = <<>>
  /\ MailOff
  /\ DbOff
  /\ Polling
  /\ CatalogOff
  /\ PromoOff
  /\ fsm = [u \in Users |-> None]
  /\ data = [u \in Users |-> EmptyData]
  /\ apartments = <<>>
  /\ commits = 0
  /\ last = [user |-> Admin, from |-> None, reply |-> NO_REPLY]

NextMail ==
  \/ \E u \in Users, segment \in BroadcastCallbacks : cb_admin_broadcast_segment(u, segment)
  \/ \E u \in Users, m \in {TextMessage(T_WORD), TextMessage(T_BLANK), PhotoMessage(<<"p">>)} :
        msg_broadcast_text(u, m)
  \/ \E chosen \in SUBSET (1..MaxUsers), fails \in SUBSET (1..MaxUsers) :
        reminders_loop(chosen, fails)

SpecMail == InitMail /\ [][NextMail]_vars

(***************************************************************************)
(* Startup                                                                 *)
(***************************************************************************)
\* main() without the check of the budget thresholds
main_without_thresholds ==
  /\ boot.pc \notin {"polling", "RuntimeError"}
  /\ boot' =
       IF boot.pc = "main"
       THEN IF (REQUIRED_ENV \ {"BUDGET_THRESHOLDS"}) \ boot.env # {}
            THEN [boot EXCEPT !.pc = "RuntimeError"]
            ELSE [boot EXCEPT !.pc = "create_pool"]
       ELSE IF boot.pc = "create_pool"
       THEN [boot EXCEPT !.pc = "init_db", !.opened = @ \cup {"pool"}]
       ELSE IF boot.pc = "init_db"
       THEN [boot EXCEPT !.pc = "create_task", !.opened = @ \cup {"schema"}]
       ELSE IF boot.pc = "create_task"
       THEN [boot EXCEPT !.pc = "start_polling", !.opened = @ \cup {"reminders"}]
       ELSE [boot EXCEPT !.pc = "polling", !.opened = @ \cup {"polling"}]
  /\ UNCHANGED <<fsm, data, apartments, commits, last, sent, catalogVars, promoVars, tasks, mailVars, dbVars>>

\* main(), one statement at a time: the check of required_env (RuntimeError
\* for a missing setting), asyncpg.create_pool, init_db, the bot, the
\* dispatcher with its handlers and the task of reminders_loop, start_polling
main ==
  /\ boot.pc \notin {"polling", "RuntimeError"}
  /\ boot' =
       IF boot.pc = "main"
       THEN IF REQUIRED_ENV \ boot.env # {}
            THEN [boot EXCEPT !.pc = "RuntimeError"]
            ELSE [boot EXCEPT !.pc = "create_pool"]
       ELSE IF boot.pc = "create_pool"
       THEN [boot EXCEPT !.pc = "init_db", !.opened = @ \cup {"pool"}]
       ELSE IF boot.pc = "init_db"
       THEN [boot EXCEPT !.pc = "create_task", !.opened = @ \cup {"schema"}]
       ELSE IF boot.pc = "create_task"
       THEN [boot EXCEPT !.pc = "start_polling", !.opened = @ \cup {"reminders"}]
       ELSE [boot EXCEPT !.pc = "polling", !.opened = @ \cup {"polling"}]
  /\ UNCHANGED <<fsm, data, apartments, commits, last, sent, catalogVars, promoVars, tasks, mailVars, dbVars>>

\* a message no other handler takes, once the dispatcher polls
fallback(u, m) ==
  /\ boot.pc = "polling"
  /\ UNCHANGED <<apartments, commits>>
  /\ Leave(u, Session(u), IF startswith(m.text, <<"/">>) THEN "commands_list" ELSE "use_menu_buttons")

\* The process is started in an environment that holds some of the settings.
InitMain ==
  /\ sent = <<>>
  /\ tasks = <<>>
  /\ MailOff
  /\ DbOff
  /\ CatalogOff
  /\ PromoOff
  /\ fsm = [u \in Users |-> None]
  /\ data = [u \in Users |-> EmptyData]
  /\ apartments = <<>>
  /\ commits = 0
  /\ last = [user |-> Admin, from |-> None, reply |-> NO_REPLY]
  /\ \E env \in SUBSET Settings : boot = [env |-> env, pc |-> "main", opened |-> {}]

NextMain ==
  \/ main
  \/ \E u \in Users, m \in {TextMessage(T_WORD), TextMessage(<<"/", "x">>)} : fallback(u, m)

SpecMain == InitMain /\ [][NextMain]_vars

(***************************************************************************)
(* Referrals                                                               *)
(***************************************************************************)
\* every variable outside the database and the handlers in flight stays as it is
DbFrame == UNCHANGED <<fsm, data, apartments, commits, sent, catalogVars, mailVars, boot>>

\* STRICT_PHONE_MODE = os.getenv("STRICT_PHONE_MODE", "").lower() in {"1", "true", "yes", "on"}
STRICT_PHONE_MODE == "STRICT_PHONE_MODE" \in boot.env

\* the ref_code of the row of uid.  upsert_user draws it at random and the
\* column is UNIQUE: the code of a user is the user's id
RefCode(uid) == <<uid>>

\* the texts of /start: the command alone, with an argument that is no
\* referral, and with ref_<code> for the code of every user and for one code
\* that no user has
StartTexts ==
  {<<"/start">>, <<"/start", "promo">>} \cup {<<"/start", "ref_", c>> : c \in 1..(MaxUsers + 1)}

\* parts = text.split(maxsplit=1): what follows the command, <<>> when
\* nothing does (None and "" are both false at `not start_arg`)
parse_start_arg(text) == Tail(text)

\* INSERT INTO users ... ON CONFLICT (tg_user_id) DO UPDATE SET last_seen_at = NOW()
upsert_user(table, uid) ==
  [table EXCEPT ![uid] =
     IF @.present THEN [@ EXCEPT !.last_seen_at = now]
     ELSE [NO_USER EXCEPT !.present = TRUE, !.last_seen_at = now]]

\* INSERT INTO referrals(inviter_user_id, invitee_user_id, qualified)
\* VALUES(inviter, invitee, FALSE) ON CONFLICT (invitee_user_id) DO NOTHING
insert_referral(rows, inviter, invitee) ==
  IF \E r \in rows : r.invitee_user_id = invitee THEN rows
  ELSE rows \cup {[inviter_user_id |-> inviter, invitee_user_id |-> invitee, qualified |-> FALSE]}

\* assign_inviter_if_needed without the test of the inviter the row has
assign_inviter_again(table, rows, uid, start_arg) ==
  LET found == {k \in 1..MaxUsers : table[k].present /\ RefCode(k) = Tail(start_arg)}
  IN  IF start_arg = <<>> \/ Head(start_arg) # "ref_" THEN [users |-> table, referrals |-> rows]
      ELSE IF ~table[uid].present THEN [users |-> table, referrals |-> rows]
      ELSE IF found = {} \/ found = {uid} THEN [users |-> table, referrals |-> rows]
      ELSE LET inviter == CHOOSE k \in found : TRUE
           IN  [users |-> [table EXCEPT ![uid].inviter_user_id = inviter],
                referrals |-> insert_referral(rows, inviter, uid)]

\* assign_inviter_if_needed(db, uid, start_arg) over the users and the
\* referrals it is given: the two tables after it
assign_inviter_if_needed(table, rows, uid, start_arg) ==
  LET found == {k \in 1..MaxUsers : table[k].present /\ RefCode(k) = Tail(start_arg)}
  IN  IF start_arg = <<>> \/ Head(start_arg) # "ref_" THEN [users |-> table, referrals |-> rows]
      ELSE IF ~table[uid].present \/ table[uid].inviter_user_id # 0
      THEN [users |-> table, referrals |-> rows]
      ELSE IF found = {} \/ found = {uid} THEN [users |-> table, referrals |-> rows]
      ELSE LET inviter == CHOOSE k \in found : TRUE
           IN  [users |-> [table EXCEPT ![uid].inviter_user_id = inviter],
                referrals |-> insert_referral(rows, inviter, uid)]

\* /start, handled to its end: the middleware's and the handler's upsert_user,
\* assign_inviter_if_needed, log_event and the welcome message
cmd_start(uid, text) ==
  /\ LET after == assign_inviter_if_needed(upsert_user(users, uid), referrals, uid,
                                           parse_start_arg(text))
     IN  /\ users' = after.users
         /\ referrals' = after.referrals
  /\ stored' = [stored EXCEPT !["events"] = @ \cup {uid}]
  /\ last' = [user |-> uid, from |-> None, reply |-> "start", arg |-> parse_start_arg(text)]
  /\ UNCHANGED <<giveaway_entries, promoVars, tasks>>
  /\ DbFrame

\* a contact shared in a message: the phone is stored when the contact is
\* the sender's own
msg_contact(uid, own) ==
  /\ users' = [upsert_user(users, uid) EXCEPT ![uid].phone = @ \/ own]
  /\ UNCHANGED <<referrals, giveaway_entries, stored, promoVars, tasks, last>>
  /\ DbFrame

\* book:apt:<id>, up to the answer of its INSERT INTO click_events:
\* maybe_qualify_referral is about to run for the user
cb_book_apartment(uid) ==
  /\ Len(tasks) < MaxTasks
  /\ users' = upsert_user(users, uid)
  /\ stored' = [stored EXCEPT !["click_events"] = @ \cup {uid}]
  /\ tasks' = Append(tasks, [user |-> uid, pc |-> "fetchrow", inviter |-> 0, row |-> 0,
                             qualified |-> FALSE, rewarded |-> 0])
  /\ UNCHANGED <<referrals, giveaway_entries, promoVars, last>>
  /\ DbFrame

\* maybe_qualify_referral: SELECT inviter_user_id, qualified FROM referrals
\* WHERE invitee_user_id=user
maybe_qualify_referral_fetchrow(t) ==
  /\ tasks[t].pc = "fetchrow"
  /\ LET ref == {r \in referrals : r.invitee_user_id = tasks[t].user}
     IN  tasks' = [tasks EXCEPT ![t] =
           IF ref = {} \/ (\E r \in ref : r.qualified) THEN [@ EXCEPT !.pc = "done"]
           ELSE [@ EXCEPT !.pc = IF STRICT_PHONE_MODE THEN "fetchval" ELSE "execute",
                          !.inviter = (CHOOSE r \in ref : TRUE).inviter_user_id]]
  /\ UNCHANGED <<dbVars, promoVars, last>>
  /\ DbFrame

\* under STRICT_PHONE_MODE: SELECT phone FROM users WHERE tg_user_id=user
maybe_qualify_referral_fetchval(t) ==
  /\ tasks[t].pc = "fetchval"
  /\ tasks' = [tasks EXCEPT ![t].pc = IF users[tasks[t].user].phone THEN "execute" ELSE "done"]
  /\ UNCHANGED <<dbVars, promoVars, last>>
  /\ DbFrame

\* UPDATE referrals SET qualified=TRUE WHERE invitee_user_id=user
maybe_qualify_referral_execute(t) ==
  /\ tasks[t].pc = "execute"
  /\ referrals' = {IF r.invitee_user_id = tasks[t].user THEN [r EXCEPT !.qualified = TRUE] ELSE r :
                     r \in referrals}
  /\ tasks' = [tasks EXCEPT ![t] =
                 [@ EXCEPT !.pc = "fetchcode",
                           !.qualified = \E r \in referrals : r.invitee_user_id = tasks[t].user]]
  /\ UNCHANGED <<users, giveaway_entries, stored, promoVars, last>>
  /\ DbFrame

\* SELECT id, code FROM promo_codes WHERE kind='referral_reward' AND
\* is_assigned=FALSE ORDER BY id LIMIT 1
maybe_qualify_referral_fetchcode(t) ==
  /\ tasks[t].pc = "fetchcode"
  /\ LET free == {i \in 1..Len(promo_codes) :
                    promo_codes[i].kind = "referral_reward" /\ ~promo_codes[i].is_assigned}
     IN  tasks' = [tasks EXCEPT ![t] =
           IF free = {} THEN [@ EXCEPT !.pc = "done"]
           ELSE [@ EXCEPT !.pc = "assign", !.row = CHOOSE i \in free : \A j \in free : i <= j]]
  /\ UNCHANGED <<dbVars, promoVars, last>>
  /\ DbFrame

\* UPDATE promo_codes SET is_assigned=TRUE, assigned_to=inviter WHERE id=row
maybe_qualify_referral_assign(t) ==
  /\ tasks[t].pc = "assign"
  /\ promo_codes' = [promo_codes EXCEPT ![tasks[t].row] =
                       [@ EXCEPT !.is_assigned = TRUE, !.assigned_to = tasks[t].inviter]]
  /\ tasks' = [tasks EXCEPT ![t] = [@ EXCEPT !.pc = "done", !.rewarded = tasks[t].row]]
  /\ UNCHANGED <<dbVars, requests, last>>
  /\ DbFrame

\* Users who have started the bot, and the /start commands they send.
InitStart ==
  /\ sent = <<>>
  /\ tasks = <<>>
  /\ MailOff
  /\ Polling
  /\ CatalogOff
  /\ PromoOff
  /\ fsm = [u \in Users |-> None]
  /\ data = [u \in Users |-> EmptyData]
  /\ apartments = <<>>
  /\ commits = 0
  /\ last = [user |-> Admin, from |-> None, reply |-> NO_REPLY]
  /\ \E present \in SUBSET (1..MaxUsers) :
        /\ users = [uid \in 1..MaxUsers |->
                      IF uid \in present THEN [NO_USER EXCEPT !.present = TRUE] ELSE NO_USER]
        /\ stored = [t \in LogTables |-> IF t = "events" THEN present ELSE {}]
  /\ referrals = {}
  /\ giveaway_entries = {}

NextStart ==
  \E uid \in 1..MaxUsers, text \in StartTexts : cmd_start(uid, text)

SpecStart == InitStart /\ [][NextStart]_vars

\* Users who came by the referral link of user 1, a pool of free codes of
\* two kinds, and the two settings of STRICT_PHONE_MODE.
InitReferral ==
  /\ sent = <<>>
  /\ tasks = <<>>
  /\ MailOff
  /\ CatalogOff
  /\ fsm = [u \in Users |-> None]
  /\ data = [u \in Users |-> EmptyData]
  /\ apartments = <<>>
  /\ commits = 0
  /\ last = [user |-> Admin, from |-> None, reply |-> NO_REPLY]
  /\ requests = <<>>
  /\ \E n \in 0..MaxCodes : \E kinds \in [1..n -> {"referral_reward", "welcome"}] :
        promo_codes = [i \in 1..n |->
                         [kind |-> kinds[i], is_assigned |-> FALSE, assigned_to |-> 0]]
  /\ \E strict \in SUBSET {"STRICT_PHONE_MODE"} :
        boot = [env |-> Settings \cup strict, pc |-> "polling",
                opened |-> {"pool", "schema", "reminders", "polling"}]
  /\ \E invited \in {{2}, 2..MaxUsers} :
        /\ users = [uid \in 1..MaxUsers |->
                      [NO_USER EXCEPT !.present = TRUE,
                                      !.inviter_user_id = IF uid \in invited THEN 1 ELSE 0]]
        /\ referrals = {[inviter_user_id |-> 1, invitee_user_id |-> uid, qualified |-> FALSE] :
                          uid \in invited}
  /\ giveaway_entries = {}
  /\ stored = [t \in LogTables |-> IF t = "events" THEN 1..MaxUsers ELSE {}]

NextReferral ==
  \/ \E uid \in 1..MaxUsers, own \in BOOLEAN : msg_contact(uid, own)
  \/ \E uid \in 1..MaxUsers : cb_book_apartment(uid)
  \/ \E t \in 1..Len(tasks) : maybe_qualify_referral_fetchrow(t)
  \/ \E t \in 1..Len(tasks) : maybe_qualify_referral_fetchval(t)
  \/ \E t \in 1..Len(tasks) : maybe_qualify_referral_execute(t)
  \/ \E t \in 1..Len(tasks) : maybe_qualify_referral_fetchcode(t)
  \/ \E t \in 1..Len(tasks) : maybe_qualify_referral_assign(t)

SpecReferral == InitReferral /\ [][NextReferral]_vars

(***************************************************************************)
(* Deletion of a user's data                                               *)
(***************************************************************************)
\* start:date: the session waits for the text of a start date
cb_start_date(u) ==
  /\ users' = upsert_user(users, u)
  /\ fsm' = [fsm EXCEPT ![u] = "entry_waiting_text"]
  /\ data' = [data EXCEPT ![u] = Update(@, "entry_prompt_message_id" :> CARD_MESSAGE_ID)]
  /\ last' = [user |-> u, from |-> fsm[u], reply |-> "enter_start_date"]
  /\ UNCHANGED <<referrals, giveaway_entries, stored, promoVars, tasks, apartments, commits,
                 sent, catalogVars, mailVars, boot>>

\* a message while the session is in EntryDateState.waiting_text: a text is
\* stored as a row of entry_date_requests and the session is cleared
msg_entry_date(u, m) ==
  /\ fsm[u] = "entry_waiting_text"
  /\ users' = upsert_user(users, u)
  /\ UNCHANGED <<referrals, giveaway_entries, promoVars, tasks, apartments, commits,
                 sent, catalogVars, mailVars, boot>>
  /\ IF strip(m.text) = <<>>
     THEN /\ last' = [user |-> u, from |-> fsm[u], reply |-> "no_text"]
          /\ UNCHANGED <<stored, fsm, data>>
     ELSE /\ stored' = [stored EXCEPT !["entry_date_requests"] = @ \cup {u}]
          /\ fsm' = [fsm EXCEPT ![u] = None]
          /\ data' = [data EXCEPT ![u] = EmptyData]
          /\ last' = [user |-> u, from |-> fsm[u], reply |-> "start_date_stored"]

\* giveaway:join: INSERT INTO giveaway_entries(user_id, is_winner)
\* VALUES(uid, FALSE) ON CONFLICT (user_id) DO NOTHING
cb_giveaway_join(uid) ==
  /\ users' = upsert_user(users, uid)
  /\ giveaway_entries' =
       IF \E e \in giveaway_entries : e.user_id = uid THEN giveaway_entries
       ELSE giveaway_entries \cup {[user_id |-> uid, is_winner |-> FALSE, winner_code |-> 0]}
  /\ last' = [user |-> uid, from |-> None, reply |-> "joined"]
  /\ UNCHANGED <<referrals, stored, promoVars, tasks>>
  /\ DbFrame

\* the tables cmd_delete has a DELETE for, among those with a user_id column
DeletedLogTables == {"date_requests", "click_events", "events"}

\* /delete_me, handled to its end: its seven DELETE statements
cmd_delete(uid) ==
  /\ referrals' = {r \in referrals : r.inviter_user_id # uid /\ r.invitee_user_id # uid}
  /\ giveaway_entries' = {e \in giveaway_entries : e.user_id # uid}
  /\ stored' = [t \in LogTables |-> IF t \in DeletedLogTables THEN stored[t] \ {uid} ELSE stored[t]]
  /\ promo_codes' = SelectSeq(promo_codes, LAMBDA c : c.assigned_to # uid)
  /\ users' = [users EXCEPT ![uid] = NO_USER]
  /\ last' = [user |-> uid, from |-> None, reply |-> "data_deleted"]
  /\ UNCHANGED <<requests, tasks>>
  /\ DbFrame

\* Two users who start the bot, come by a referral link, leave a start date,
\* join the giveaway and delete their data; one of the two codes of the pool
\* is the welcome code of user 2.
InitDelete ==
  /\ sent = <<>>
  /\ tasks = <<>>
  /\ MailOff
  /\ Polling
  /\ CatalogOff
  /\ fsm = [u \in Users |-> None]
  /\ data = [u \in Users |-> EmptyData]
  /\ apartments = <<>>
  /\ commits = 0
  /\ last = [user |-> Admin, from |-> None, reply |-> NO_REPLY]
  /\ requests = <<>>
  /\ promo_codes = <<[kind |-> "welcome", is_assigned |-> TRUE, assigned_to |-> Guest],
                     [kind |-> "welcome", is_assigned |-> FALSE, assigned_to |-> 0]>>
  /\ users = [uid \in 1..MaxUsers |->
                IF uid = Guest THEN [NO_USER EXCEPT !.present = TRUE] ELSE NO_USER]
  /\ referrals = {}
  /\ giveaway_entries = {}
  /\ stored = [t \in LogTables |-> IF t \in {"events", "click_events"} THEN {Guest} ELSE {}]

NextDelete ==
  \/ \E u \in Users, text \in {<<"/start">>, <<"/start", "ref_", Admin>>} : cmd_start(u, text)
  \/ \E u \in Users : cb_start_date(u)
  \/ \E u \in Users, m \in {TextMessage(T_WORD), TextMessage(T_BLANK)} : msg_entry_date(u, m)
  \/ \E u \in Users : cb_giveaway_join(u)
  \/ \E u \in Users : cmd_delete(u)

SpecDelete == InitDelete /\ [][NextDelete]_vars

(***************************************************************************)
(* The reminder pass, statement by statement                               *)
(***************************************************************************)
\* the clock of the reminders counts days, up to MaxDay
MaxDay == 24

\* last_seen_at < NOW() - INTERVAL '7 days'
SEEN_DAYS == 7

\* last_reminder_at < NOW() - INTERVAL '14 days'
REMINDER_DAYS == 14

\* the WHERE clause of the SELECT of reminders_loop, for the row of uid
Eligible(uid) ==
  /\ users[uid].present
  /\ ~users[uid].reminders_opt_out
  /\ ~is_blocked[uid]
  /\ users[uid].last_seen_at < now - SEEN_DAYS
  /\ (users[uid].last_reminder_at = NEVER \/ users[uid].last_reminder_at < now - REMINDER_DAYS)

\* what one turn of the inner try of reminders_loop can come to: the message
\* is delivered and the UPDATE of last_reminder_at succeeds, send_message
\* raises, or the message is delivered and the UPDATE raises
Outcomes == {"delivered", "send_raises", "execute_raises"}

\* every variable outside the users table, the mailing and the clock stays as it is
ReminderFrame ==
  UNCHANGED <<fsm, data, apartments, commits, sent, user_filters, result, last_click_at,
              registered, promoVars, tasks, boot, referrals, giveaway_entries>>

\* rem:off: UPDATE users SET reminders_opt_out=TRUE WHERE tg_user_id=uid
cb_rem_off(uid) ==
  /\ users' = [upsert_user(users, uid) EXCEPT ![uid].reminders_opt_out = TRUE]
  /\ last' = [user |-> uid, from |-> None, reply |-> "reminders_off"]
  /\ UNCHANGED <<stored, now, mailVars>>
  /\ ReminderFrame

\* any other update of a user: the middleware's upsert_user sets last_seen_at
touch_user(uid) ==
  /\ users' = upsert_user(users, uid)
  /\ last' = [user |-> uid, from |-> None, reply |-> NO_REPLY]
  /\ UNCHANGED <<stored, now, mailVars>>
  /\ ReminderFrame

\* reminders_loop, the SELECT that opens a pass (LIMIT 100 is above MaxUsers)
reminders_fetch ==
  /\ outbox.rows = <<>>
  /\ outbox' = [outbox EXCEPT !.rows = Ascending({uid \in 1..MaxUsers : Eligible(uid)})]
  /\ outbox'.rows # <<>>
  /\ UNCHANGED <<users, is_blocked, stored, now, last>>
  /\ ReminderFrame

\* reminders_loop, one turn of its for loop: send_message, the UPDATE of
\* last_reminder_at, and handle_blocked when either raises.  blocked_raises:
\* the UPDATE of handle_blocked raises too, which ends the pass in the outer
\* except
reminders_send(outcome, blocked_raises) ==
  /\ outbox.rows # <<>>
  /\ LET uid == Head(outbox.rows)
         got == outcome # "send_raises"
     IN  /\ users' = IF outcome = "delivered" /\ users[uid].present
                     THEN [users EXCEPT ![uid].last_reminder_at = now]
                     ELSE users
         /\ is_blocked' = IF outcome = "delivered" \/ blocked_raises THEN is_blocked
                          ELSE handle_blocked({uid})
         /\ outbox' = [outbox EXCEPT
               !.rows = IF outcome # "delivered" /\ blocked_raises THEN <<>> ELSE Tail(@),
               !.tried = IF got THEN [@ EXCEPT ![uid] = now] ELSE @,
               !.failed = IF got THEN @ ELSE @ \cup {uid},
               !.sent = uid]
  /\ UNCHANGED <<stored, now, last>>
  /\ ReminderFrame

\* await asyncio.sleep(3600) between two passes, while days go by
asyncio_sleep(days) ==
  /\ outbox.rows = <<>>
  /\ now + days <= MaxDay
  /\ now' = now + days
  /\ UNCHANGED <<users, mailVars, stored, last>>
  /\ ReminderFrame

\* Users who have started the bot, the passes of reminders_loop and the days
\* between them.  tried: user -> the day of the reminder delivered last;
\* failed: the users a delivery to whom has raised; sent: the user of the
\* turn taken last
InitReminders ==
  /\ sent = <<>>
  /\ tasks = <<>>
  /\ Polling
  /\ CatalogOff
  /\ PromoOff
  /\ fsm = [u \in Users |-> None]
  /\ data = [u \in Users |-> EmptyData]
  /\ apartments = <<>>
  /\ commits = 0
  /\ last = [user |-> Admin, from |-> None, reply |-> NO_REPLY]
  /\ is_blocked = [uid \in 1..MaxUsers |-> FALSE]
  /\ outbox = [by |-> "reminders", rows |-> <<>>, tried |-> [uid \in 1..MaxUsers |-> NEVER],
               failed |-> {}, sent |-> 0]
  /\ users = [uid \in 1..MaxUsers |->
                IF uid \in Users THEN [NO_USER EXCEPT !.present = TRUE] ELSE NO_USER]
  /\ referrals = {}
  /\ giveaway_entries = {}
  /\ stored = [t \in LogTables |-> IF t = "events" THEN Users ELSE {}]

NextReminders ==
  \/ \E uid \in Users : cb_rem_off(uid)
  \/ \E uid \in Users : touch_user(uid)
  \/ reminders_fetch
  \/ \E outcome \in Outcomes, blocked_raises \in BOOLEAN : reminders_send(outcome, blocked_raises)
  \/ \E days \in {SEEN_DAYS, SEEN_DAYS + 1} : asyncio_sleep(days)

SpecReminders == InitReminders /\ [][NextReminders]_vars

(***************************************************************************)
(* Promo codes the operator types in                                       *)
(***************************************************************************)
\* the kinds of codes this flow reads and writes, as the texts they are
MANUAL == <<"m", "a", "n", "u", "a", "l">>
WELCOME == <<"w", "e", "l", "c", "o", "m", "e">>

\* the ids of the date requests the operator's buttons carry here: the id of
\* the request of a user is the user's id, and one id is of no request
RequestIds == {Guest, MaxUsers + 1}

\* text.split("|")
RECURSIVE SplitBar(_)
SplitBar(s) ==
  IF \A i \in 1..Len(s) : s[i] # "|" THEN <<s>>
  ELSE LET i == CHOOSE k \in 1..Len(s) : s[k] = "|" /\ \A j \in 1..(k - 1) : s[j] # "|"
       IN  <<SubSeq(s, 1, i - 1)>> \o SplitBar(SubSeq(s, i + 1, Len(s)))

\* the rows of promo_codes with this code (the column is UNIQUE)
RowsOfCode(code) == {i \in 1..Len(promo_codes) : promo_codes[i].code = code}

\* every variable outside the session, the codes and the mailing stays as it is
ManualFrame == UNCHANGED <<apartments, commits, sent, catalogVars, requests, tasks, boot, dbVars>>

\* admin:code:add: the session waits for one line CODE|KIND
cb_admin_code_add(u) ==
  /\ fsm' = [fsm EXCEPT ![u] = "promo_waiting_custom_code"]
  /\ data' = [data EXCEPT ![u] = Update(@, "mode" :> "single_add")]
  /\ last' = [user |-> u, from |-> fsm[u], reply |-> "enter_code_and_kind"]
  /\ UNCHANGED <<promo_codes, mailVars>>
  /\ ManualFrame

\* req:promo_manual:<req_id>: the session waits for the code of the request
cb_req_promo_manual(u, req_id) ==
  /\ fsm' = [fsm EXCEPT ![u] = "promo_waiting_custom_code"]
  /\ data' = [data EXCEPT ![u] = Update(@, "req_id" :> req_id)]
  /\ last' = [user |-> u, from |-> fsm[u], reply |-> "enter_code"]
  /\ UNCHANGED <<promo_codes, mailVars>>
  /\ ManualFrame

\* a message while the session is in AdminPromoState.waiting_custom_code.
\* delivered: send_message to the user of the request does not raise
msg_admin_code_add(u, m, delivered) ==
  /\ fsm[u] = "promo_waiting_custom_code"
  /\ ManualFrame
  /\ LET parts == [i \in 1..Len(SplitBar(m.text)) |-> strip(SplitBar(m.text)[i])]
         req_id == Get(data[u], "req_id", 0)
         code_text == strip(m.text)
         code_row == {i \in RowsOfCode(code_text) :
                        promo_codes[i].kind = MANUAL /\ ~promo_codes[i].is_assigned}
         Answer(reply) == last' = [user |-> u, from |-> fsm[u], reply |-> reply]
         clear == /\ fsm' = [fsm EXCEPT ![u] = None]
                  /\ data' = [data EXCEPT ![u] = EmptyData]
     IN  IF u \notin ADMIN_IDS
         THEN /\ Answer(NO_REPLY)
              /\ UNCHANGED <<fsm, data, promo_codes, mailVars>>
         ELSE IF Has(data[u], "mode") /\ data[u]["mode"] = "single_add"
         THEN IF Len(parts) # 2
              THEN /\ Answer("wrong_format")
                   /\ UNCHANGED <<fsm, data, promo_codes, mailVars>>
              ELSE IF RowsOfCode(parts[1]) # {}
              THEN /\ Answer("error")
                   /\ UNCHANGED <<fsm, data, promo_codes, mailVars>>
              ELSE /\ promo_codes' = Append(promo_codes,
                                            [code |-> parts[1], kind |-> parts[2],
                                             is_assigned |-> FALSE, assigned_to |-> 0])
                   /\ clear
                   /\ Answer("code_added")
                   /\ UNCHANGED mailVars
         ELSE IF req_id = 0
         THEN /\ Answer("no_request")
              /\ UNCHANGED <<fsm, data, promo_codes, mailVars>>
         ELSE IF req_id \notin stored["date_requests"]
         THEN /\ Answer("request_not_found")
              /\ clear
              /\ UNCHANGED <<promo_codes, mailVars>>
         ELSE /\ promo_codes' =
                   IF code_row # {}
                   THEN [promo_codes EXCEPT ![CHOOSE i \in code_row : TRUE] =
                           [@ EXCEPT !.is_assigned = TRUE, !.assigned_to = req_id]]
                   ELSE IF RowsOfCode(code_text) # {} THEN promo_codes
                   ELSE Append(promo_codes, [code |-> code_text, kind |-> MANUAL,
                                             is_assigned |-> TRUE, assigned_to |-> req_id])
              /\ outbox' = [by |-> "msg_admin_code_add", to |-> req_id, code |-> code_text,
                            delivered |-> delivered]
              /\ is_blocked' = IF delivered THEN is_blocked ELSE handle_blocked({req_id})
              /\ clear
              /\ Answer("code_sent")

\* The operator and a user at the buttons of the code flow; user 2 has a
\* date request, user 3 holds the welcome code A, and the manual code B is
\* free.
InitManual ==
  /\ sent = <<>>
  /\ tasks = <<>>
  /\ MailOff
  /\ Polling
  /\ CatalogOff
  /\ fsm = [u \in Users |-> None]
  /\ data = [u \in Users |-> EmptyData]
  /\ apartments = <<>>
  /\ commits = 0
  /\ last = [user |-> Admin, from |-> None, reply |-> NO_REPLY]
  /\ requests = <<>>
  /\ promo_codes = <<[code |-> <<"A">>, kind |-> WELCOME, is_assigned |-> TRUE, assigned_to |-> 3],
                     [code |-> <<"B">>, kind |-> MANUAL, is_assigned |-> FALSE, assigned_to |-> 0]>>
  /\ users = [uid \in 1..MaxUsers |-> [NO_USER EXCEPT !.present = TRUE]]
  /\ referrals = {}
  /\ giveaway_entries = {}
  /\ stored = [t \in LogTables |->
                 IF t = "events" THEN 1..MaxUsers
                 ELSE IF t = "date_requests" THEN {Guest} ELSE {}]

NextManual ==
  \/ \E u \in Users : cb_admin_code_add(u)
  \/ \E u \in Users, req_id \in RequestIds : cb_req_promo_manual(u, req_id)
  \/ \E u \in Users, delivered \in BOOLEAN,
        m \in {TextMessage(<<"A">>), TextMessage(<<" ", "B">>),
               TextMessage(<<"C", "|">> \o MANUAL)} :
        msg_admin_code_add(u, m, delivered)

SpecManual == InitManual /\ [][NextManual]_vars

(***************************************************************************)
(* The giveaway                                                            *)
(***************************************************************************)
\* every variable outside the giveaway, the codes and the blocked users stays as it is
DrawFrame ==
  UNCHANGED <<fsm, data, apartments, commits, sent, catalogVars, requests, tasks, outbox, boot,
              users, referrals, stored>>

\* admin:giveaway:draw with a winner drawn from every entry, winners included
cb_draw_among_all(u, pick, delivered) ==
  /\ DrawFrame
  /\ LET free == {i \in 1..Len(promo_codes) :
                    promo_codes[i].kind = "giveaway" /\ ~promo_codes[i].is_assigned}
         participants == {e.user_id : e \in giveaway_entries}
         Answer(reply) == last' = [user |-> u, from |-> fsm[u], reply |-> reply]
     IN  IF u \notin ADMIN_IDS
         THEN /\ Answer(NO_ACCESS)
              /\ UNCHANGED <<promo_codes, giveaway_entries, is_blocked>>
         ELSE IF free = {}
         THEN /\ Answer("no_free_codes")
              /\ UNCHANGED <<promo_codes, giveaway_entries, is_blocked>>
         ELSE IF participants = {}
         THEN /\ Answer("no_participants")
              /\ UNCHANGED <<promo_codes, giveaway_entries, is_blocked>>
         ELSE LET code == CHOOSE i \in free : \A j \in free : i <= j
              IN  /\ pick \in participants
                  /\ promo_codes' = [promo_codes EXCEPT ![code] =
                                       [@ EXCEPT !.is_assigned = TRUE, !.assigned_to = pick]]
                  /\ giveaway_entries' =
                       {IF e.user_id = pick
                        THEN [e EXCEPT !.is_winner = TRUE, !.winner_code = code] ELSE e :
                          e \in giveaway_entries}
                  /\ is_blocked' = IF delivered THEN is_blocked ELSE handle_blocked({pick})
                  /\ last' = [user |-> u, from |-> fsm[u], reply |-> "winner_chosen",
                              winner |-> pick, code |-> code]

\* admin:giveaway:draw, handled to its end.  pick: the participant
\* secrets.choice returns; delivered: send_message to the winner does not
\* raise.  The code of the row with id i is i
cb_draw(u, pick, delivered) ==
  /\ DrawFrame
  /\ LET free == {i \in 1..Len(promo_codes) :
                    promo_codes[i].kind = "giveaway" /\ ~promo_codes[i].is_assigned}
         participants == {e.user_id : e \in {x \in giveaway_entries : ~x.is_winner}}
         Answer(reply) == last' = [user |-> u, from |-> fsm[u], reply |-> reply]
     IN  IF u \notin ADMIN_IDS
         THEN /\ Answer(NO_ACCESS)
              /\ UNCHANGED <<promo_codes, giveaway_entries, is_blocked>>
         ELSE IF free = {}
         THEN /\ Answer("no_free_codes")
              /\ UNCHANGED <<promo_codes, giveaway_entries, is_blocked>>
         ELSE IF participants = {}
         THEN /\ Answer("no_participants")
              /\ UNCHANGED <<promo_codes, giveaway_entries, is_blocked>>
         ELSE LET code == CHOOSE i \in free : \A j \in free : i <= j
              IN  /\ pick \in participants
                  /\ promo_codes' = [promo_codes EXCEPT ![code] =
                                       [@ EXCEPT !.is_assigned = TRUE, !.assigned_to = pick]]
                  /\ giveaway_entries' =
                       {IF e.user_id = pick
                        THEN [e EXCEPT !.is_winner = TRUE, !.winner_code = code] ELSE e :
                          e \in giveaway_entries}
                  /\ is_blocked' = IF delivered THEN is_blocked ELSE handle_blocked({pick})
                  /\ last' = [user |-> u, from |-> fsm[u], reply |-> "winner_chosen",
                              winner |-> pick, code |-> code]

\* Users who join the giveaway, and the draws over a pool of free codes of
\* two kinds.
InitDraw ==
  /\ sent = <<>>
  /\ tasks = <<>>
  /\ MailOff
  /\ Polling
  /\ CatalogOff
  /\ fsm = [u \in Users |-> None]
  /\ data = [u \in Users |-> EmptyData]
  /\ apartments = <<>>
  /\ commits = 0
  /\ last = [user |-> Admin, from |-> None, reply |-> NO_REPLY]
  /\ requests = <<>>
  /\ \E n \in 0..MaxCodes : \E kinds \in [1..n -> {"giveaway", "welcome"}] :
        promo_codes = [i \in 1..n |->
                         [kind |-> kinds[i], is_assigned |-> FALSE, assigned_to |-> 0]]
  /\ users = [uid \in 1..MaxUsers |-> [NO_USER EXCEPT !.present = TRUE]]
  /\ referrals = {}
  /\ giveaway_entries = {}
  /\ stored = [t \in LogTables |-> IF t = "events" THEN 1..MaxUsers ELSE {}]

NextDraw ==
  \/ \E uid \in 1..MaxUsers : cb_giveaway_join(uid)
  \/ \E u \in Users, pick \in 1..MaxUsers, delivered \in BOOLEAN : cb_draw(u, pick, delivered)

SpecDraw == InitDraw /\ [][NextDraw]_vars

(***************************************************************************)
(* Properties                                                              *)
(***************************************************************************)
\* wizard_index of a session's data, read the way the handlers read it
IndexOf(d) == Get(d, "wizard_index", 0)

\* the session's data names an edit of an existing row
IsEdit(d) == Get(d, "wizard_mode", "add") = "edit" /\ Get(d, "wizard_apartment_id", 0) # 0

\* the collected field k is the same in both dicts
SameField(d1, d2, k) == Has(d1, k) = Has(d2, k) /\ (Has(d1, k) => d1[k] = d2[k])

\* C1: the commit (aptw:preview:save) writes a catalog record only when the
\* session of the user is in the preview state; a save that arrives in any
\* other state inserts and updates no row.
C1_CommitOnlyFromPreview ==
  [][(commits' # commits \/ apartments' # apartments) => fsm[last'.user] = "preview"]_vars

\* what a step takes for an invalid text submission
InvalidText(u, m) ==
  LET raw == strip(m.text)
      kind == StepAt(IndexOf(data[u])).kind
  IN  \/ raw = <<>>
      \/ kind = "int" /\ ~isdigit(raw)
      \/ kind = "url" /\ ~IsHttpUrl(raw)

\* C2: an invalid submission for the current step (empty text, a non-digit
\* string on the integer step, a string without http:// or https:// on the
\* url step, a media submission with zero accepted items) changes neither
\* wizard_index nor any collected field (nor anything else of the session).
C2_InvalidChangesNothing ==
  [][\A u \in Users :
       /\ fsm[u] = "waiting_text" =>
            \A m \in Inputs(u) :
               (InvalidText(u, m) /\ msg_apartment_wizard_text(u, m))
                 => (fsm'[u] = fsm[u] /\ data'[u] = data[u])
       /\ fsm[u] = "waiting_media" =>
            \A m \in Inputs(u) :
               (AcceptedMedia(m) = <<>> /\ msg_apartment_wizard_media(u, m))
                 => (fsm'[u] = fsm[u] /\ data'[u] = data[u])]_vars

\* a non-digit string was refused on the integer step, the fields of the
\* steps before it collected
C2_Witness ==
  /\ last = [user |-> Admin, from |-> "waiting_text", reply |-> "need_integer"]
  /\ fsm[Admin] = "waiting_text"
  /\ IndexOf(data[Admin]) = 5
  /\ Has(data[Admin], "features_text")
  /\ ~Has(data[Admin], "guests_max")

\* the FSM state in which the wizard waits at index idx
StateAt(idx) ==
  IF idx >= N THEN "preview"
  ELSE IF StepAt(idx).kind = "media_upload" THEN "waiting_media"
  ELSE "waiting_text"

\* C3: from a freshly started wizard (index 0), with a valid input at every
\* step and the media step ended by the done signal, the wizard enters the
\* preview after exactly N = 8 advances: a start puts the index at 0, every
\* valid input and the done signal raise it by exactly 1, the index changes
\* in no other way while the run lasts, the session waits in the state of the
\* step its index names, and the preview is entered only from index N - 1.
C3_ExactlyNAdvances ==
  [][\A u \in Users :
       LET i == IndexOf(data[u])
           j == IndexOf(data'[u])
       IN  /\ N = 8
           /\ (cb_admin_apt_add(u) /\ u \in ADMIN_IDS) => (j = 0 /\ fsm'[u] = StateAt(0))
           /\ (fsm[u] = "waiting_media" /\ cb_apartment_wizard_media_done(u))
                => (j = i + 1 /\ fsm'[u] = StateAt(j))
           /\ fsm[u] = "waiting_text" =>
                \A m \in Inputs(u) :
                   (~InvalidText(u, m) /\ msg_apartment_wizard_text(u, m))
                     => (j = i + 1 /\ fsm'[u] = StateAt(j))
           /\ (fsm[u] \in WizardStates /\ fsm'[u] \in WizardStates)
                => (j = i \/ j = i + 1 \/ j = 0)
           /\ fsm'[u] \in WizardStates => (j <= N /\ fsm'[u] = StateAt(j))
           /\ (fsm[u] # "preview" /\ fsm'[u] = "preview") => (i = N - 1 /\ j = N)]_vars

\* a run in create mode has reached the preview with every step's field
C3_Witness ==
  /\ fsm[Admin] = "preview"
  /\ IndexOf(data[Admin]) = N
  /\ Get(data[Admin], "wizard_mode", None) = "add"
  /\ \A k \in FieldKeys : Has(data[Admin], k)

\* C4: when the storage write of a commit fails the session is not cleared:
\* the FSM state (preview, for a save from the preview), every collected
\* field, the mode and the target id are what they were, the table is
\* untouched, and the cancel and the save are still taken.
C4_FailedCommitKeepsSession ==
  [][\A u \in ADMIN_IDS :
       cb_apartment_wizard_preview(u, "save", FALSE)
         => /\ fsm' = fsm /\ data' = data /\ apartments' = apartments
            /\ fsm[u] = "preview" => fsm'[u] = "preview"
            /\ ENABLED cb_apartment_wizard_preview(u, "cancel", TRUE)
            /\ ENABLED cb_apartment_wizard_preview(u, "save", FALSE)]_vars

\* a commit of an edit failed in the preview and the session is all there
C4_Witness ==
  /\ last = [user |-> Admin, from |-> "preview", reply |-> "save_failed"]
  /\ fsm[Admin] = "preview"
  /\ IsEdit(data[Admin])
  /\ \A k \in FieldKeys : Has(data[Admin], k)
  /\ commits = 0

\* C5: a commit in create mode inserts exactly one row and changes no
\* existing row; a commit in edit mode updates exactly the row whose id is
\* the target id and inserts none; both leave the session cleared.
C5_CommitFrame ==
  [][commits' # commits =>
       LET u == last'.user
           d == data[u]
           n == Len(apartments)
       IN  /\ commits' = commits + 1
           /\ IF IsEdit(d)
              THEN /\ Len(apartments') = n
                   /\ d["wizard_apartment_id"] \in 1..n
                   /\ \A i \in 1..n : i # d["wizard_apartment_id"] => apartments'[i] = apartments[i]
                   /\ apartments'[d["wizard_apartment_id"]]
                        = UpdatedRow(apartments[d["wizard_apartment_id"]], CommitColumns(d))
              ELSE /\ Len(apartments') = n + 1
                   /\ \A i \in 1..n : apartments'[i] = apartments[i]
                   /\ apartments'[n + 1] = InsertedRow(CommitColumns(d))
           /\ fsm'[u] = None
           /\ data'[u] = EmptyData]_vars

\* an edit of row 1 was committed beside an untouched row 2
C5_Witness ==
  /\ commits = 1
  /\ last = [user |-> Admin, from |-> "preview", reply |-> "apartment_saved"]
  /\ Len(apartments) = 2
  /\ apartments[1] # SeedRow
  /\ apartments[2] = SeedRow
  /\ fsm[Admin] = None /\ data[Admin] = EmptyData

\* C6: cancel (aptw:cancel, aptw:preview:cancel) is accepted in every wizard
\* state and leaves the session without FSM state and without any collected
\* field; what a later commit writes is computed from the session data of
\* that moment alone, so nothing of a cancelled run reaches the table.
C6_CancelDiscards ==
  [][\A u \in Users :
       /\ (u \in ADMIN_IDS /\ fsm[u] \in WizardStates)
            => /\ ENABLED cb_apartment_wizard_cancel(u)
               /\ ENABLED cb_apartment_wizard_preview(u, "cancel", TRUE)
       /\ (cb_apartment_wizard_cancel(u)
           \/ (u \in ADMIN_IDS /\ cb_apartment_wizard_preview(u, "cancel", TRUE)))
            => (fsm'[u] = None /\ data'[u] = EmptyData)
       /\ (data[u] = EmptyData /\ last'.user = u /\ apartments' # apartments)
            => apartments' = Append(apartments, InsertedRow(CommitColumns(EmptyData)))]_vars

\* the operator has cancelled in the middle of a run and nothing of the
\* session is left
C6_Witness ==
  /\ last = [user |-> Admin, from |-> "waiting_text", reply |-> "wizard_stopped"]
  /\ fsm[Admin] = None
  /\ data[Admin] = EmptyData
  /\ commits = 0

\* the session a restart from the preview is to leave
RestartedSession(u) ==
  /\ Has(data'[u], "wizard_index") /\ data'[u]["wizard_index"] = 0
  /\ fsm'[u] = StateAt(0)
  /\ IF IsEdit(data[u])
     THEN /\ IsEdit(data'[u])
          /\ data'[u]["wizard_apartment_id"] = data[u]["wizard_apartment_id"]
          /\ \A k \in FieldKeys :
                /\ Has(data'[u], k)
                /\ data'[u][k] = apartment_wizard_defaults_from_apartment(
                                    apartments[data[u]["wizard_apartment_id"]])[k]
     ELSE \A k \in FieldKeys : ~Has(data'[u], k)

C8_StartOverwrites ==
  [][\A u \in ADMIN_IDS :
       /\ cb_admin_apt_add(u)
            => /\ fsm'[u] = "waiting_media"
               /\ data'[u] = ("wizard_index" :> 0 @@ "wizard_mode" :> "add"
                              @@ "wizard_prompt_message_id" :> PromptMessageId(0))
       /\ \A apt_id \in AptIds :
            (Exists(apt_id) /\ cb_admin_apt_wizard(u, apt_id))
              => /\ fsm'[u] = "waiting_media"
                 /\ data'[u] = ("wizard_index" :> 0 @@ "wizard_mode" :> "edit"
                                @@ "wizard_apartment_id" :> apt_id
                                @@ "wizard_prompt_message_id" :> PromptMessageId(0)
                                @@ apartment_wizard_defaults_from_apartment(apartments[apt_id]))]_vars

\* a create run was started over a run that stood in its preview, and the
\* session holds nothing of that run
C8_Witness ==
  /\ last = [user |-> Admin, from |-> "preview", reply |-> "add_intro"]
  /\ fsm[Admin] = "waiting_media"
  /\ DOMAIN data[Admin] = {"wizard_index", "wizard_mode", "wizard_prompt_message_id"}
  /\ data[Admin]["wizard_index"] = 0

\* the wizard run of u is ended or loses or changes a collected field
RunDisturbed(u) ==
  /\ fsm[u] \in WizardStates
  /\ \/ fsm'[u] \notin WizardStates
     \/ \E k \in FieldKeys : Has(data[u], k) /\ ~SameField(data[u], data'[u], k)

\* replies of the wizard's own transitions: the inputs of its steps, the
\* cancels, the commit, the restart and the starts
WizardReplies ==
  {"value_stored", "media_added", "pick_saved",
   "wizard_stopped", "add_cancelled", "apartment_saved",
   "restarted", "restart_failed", "add_intro", "edit_intro"}

\* replies of the entries of other flows
OtherFlowReplies ==
  {"catalog_button_menu", "channel_post_intro", "dates_prompt", "reply_prompt"}

C10_MediaStepAdvancesOnDone ==
  [][\A u \in Users :
       LET d == data[u]
       IN  /\ fsm[u] = "waiting_media" =>
                \A m \in Inputs(u) :
                   (u \in ADMIN_IDS /\ msg_apartment_wizard_media(u, m))
                     => /\ fsm'[u] = "waiting_media"
                        /\ IndexOf(data'[u]) = IndexOf(d)
                        /\ \A k \in FieldKeys \ {"media_items"} : SameField(d, data'[u], k)
                        /\ IF AcceptedMedia(m) = <<>>
                           THEN data'[u] = d
                           ELSE data'[u]["media_items"]
                                  = Get(d, "media_items", <<>>) \o AcceptedMedia(m)
           /\ (fsm[u] = "waiting_media" /\ fsm'[u] \in WizardStates
                 /\ IndexOf(data'[u]) > IndexOf(d))
                => cb_apartment_wizard_media_done(u)
           /\ (fsm[u] # "waiting_media" /\ cb_apartment_wizard_media_done(u))
                => (fsm'[u] = fsm[u] /\ data'[u] = d)]_vars

\* a second submission was appended to the list and the step is still open
C10_Witness ==
  /\ last = [user |-> Admin, from |-> "waiting_media", reply |-> "media_added"]
  /\ fsm[Admin] = "waiting_media"
  /\ IndexOf(data[Admin]) = 0
  /\ Len(data[Admin]["media_items"]) = 2
  /\ data[Admin]["media_items"][1].type = PHOTO_KIND
  /\ data[Admin]["media_items"][2].type = URL_KIND

\* len(data.get("media_items", [])), the accepted-item count of a session
MediaCount(d) == Len(Get(d, "media_items", <<>>))

\* p is the beginning of q
IsPrefix(p, q) == Len(p) <= Len(q) /\ SubSeq(q, 1, Len(p)) = p

\* the update served begins a run of the wizard for u from its first step
BeginsRun(u) ==
  \/ cb_admin_apt_add(u)
  \/ \E apt_id \in AptIds : cb_admin_apt_wizard(u, apt_id)
  \/ \E db_ok \in BOOLEAN : preview_restart(u, db_ok)

\* C11: within a visit of the media step no submission lowers the count of
\* accepted items: the list kept before is the beginning of the list kept
\* after, so items are only appended and stay in the order they came in.  A
\* session that is still in the wizard holds fewer items than before, or none
\* after some, only when a run has just begun again from its first step.
C11_MediaCountMonotone ==
  [][\A u \in Users :
       LET d == data[u]
       IN  /\ fsm[u] = "waiting_media" =>
                \A m \in Inputs(u) :
                   msg_apartment_wizard_media(u, m)
                     => /\ MediaCount(data'[u]) >= MediaCount(d)
                        /\ IsPrefix(Get(d, "media_items", <<>>),
                                    Get(data'[u], "media_items", <<>>))
           /\ (fsm'[u] \in WizardStates /\ MediaCount(data'[u]) < MediaCount(d))
                => /\ BeginsRun(u)
                   /\ IndexOf(data'[u]) = 0]_vars

\* a second submission raised the count from one to two, the video sent first
\* still first
C11_Witness ==
  /\ last = [user |-> Admin, from |-> "waiting_media", reply |-> "media_added"]
  /\ fsm[Admin] = "waiting_media"
  /\ MediaCount(data[Admin]) = 2
  /\ data[Admin]["media_items"][1] = [type |-> VIDEO_KIND, value |-> <<"d">>]
  /\ data[Admin]["media_items"][2] = [type |-> PHOTO_KIND, value |-> <<"p">>]

\* the keys of the step table in the order it declares them
TableKeys == [i \in 1..N |-> APARTMENT_WIZARD_STEPS[i].key]

\* the step-table keys of a summary in the order the summary gives them
SummaryKeys(summary) ==
  LET IsField(e) == e.key \in FieldKeys
      fields == SelectSeq(summary, IsField)
  IN  [i \in 1..Len(fields) |-> fields[i].key]

\* C12: a preview that is sent lists the fields of the step table in the order
\* the table declares their keys (media_items first, map_url last), and a
\* field that was never collected is rendered empty.
C12_PreviewInTableOrder ==
  sent # <<>> =>
    /\ SummaryKeys(sent) = TableKeys
    /\ \A i \in 1..Len(sent) :
         (sent[i].key \in FieldKeys \ {"media_items"} /\ ~Has(data[last.user], sent[i].key))
           => sent[i].text = <<>>

\* how many items one message of the media step carries: one for an uploaded
\* file, one for each line of a text that is an http or https link
AcceptedCount(m) ==
  IF m.kind \in {"photo", "video", "document"} THEN 1
  ELSE IF m.kind = "text"
  THEN LET lines == splitlines(m.text)
       IN  Cardinality({i \in 1..Len(lines) : IsHttpUrl(strip(lines[i]))})
  ELSE 0

\* the entry of a summary that gives the media count
MediaEntry(summary) ==
  LET IsMedia(e) == e.key = "media_items"
  IN  SelectSeq(summary, IsMedia)[1]

\* C13: every submission of the media step raises the count of the session by
\* the number of items it carries (files and http/https lines), whatever the
\* number of lines or messages sent, and a preview that is sent shows exactly
\* the count of the session it summarises.
C13_PreviewCountsAccepted ==
  [][/\ \A u \in Users :
          fsm[u] = "waiting_media" =>
            \A m \in Inputs(u) :
               (u \in ADMIN_IDS /\ msg_apartment_wizard_media(u, m))
                 => MediaCount(data'[u]) = MediaCount(data[u]) + AcceptedCount(m)
     /\ sent' # <<>> =>
          MediaEntry(sent').text = str(MediaCount(data'[last'.user]))]_vars

\* a preview showing 2 for a photo and a text of two lines of which one is a
\* link
C13_Witness ==
  /\ sent # <<>>
  /\ MediaEntry(sent).text = <<"2">>
  /\ last.user = Admin
  /\ ~IsEdit(data[Admin])
  /\ data[Admin]["media_items"] = << [type |-> PHOTO_KIND, value |-> <<"p">>],
                                     [type |-> URL_KIND, value |-> HTTP \o <<"n">>] >>

\* C14: whatever commits and admin edits have been made, the media_urls of
\* every stored row are, in order, the values of exactly the items of the
\* media list in its details payload whose kind is the url kind.
C14_UrlListDerivable ==
  \A i \in 1..Len(apartments) :
     LET IsUrl(x) == x.type = URL_KIND
         urls == SelectSeq(apartments[i].details_json.media_items, IsUrl)
     IN  apartments[i].media_urls = [j \in 1..Len(urls) |-> urls[j].value]

\* a row that an edit of its sort order and then an edit run of the wizard
\* have written, holding a photo and a link
C14_Witness ==
  /\ commits = 1
  /\ Len(apartments) = 1
  /\ apartments[1].sort_order = 4
  /\ Len(apartments[1].details_json.media_items) = 2
  /\ apartments[1].media_urls = <<HTTPS \o <<"s">>>>

\* C15: a row of the apartments table is created or changed only by a commit
\* of the wizard: every step that leaves the table different is a commit.
C15_OnlyCommitWrites ==
  [][apartments' # apartments => commits' = commits + 1]_vars

\* u's session is at the preview of a create run that has collected every field
CreateRunDone(u) ==
  /\ u \in ADMIN_IDS
  /\ fsm[u] = "preview"
  /\ ~IsEdit(data[u])
  /\ \A k \in FieldKeys : Has(data[u], k)

\* the commit of u's create run has added a row: an active one, with the
\* guest count guests, with the entered tags (the pieces between the commas,
\* stripped and in lower case) and with the accepted media items in the order
\* and with the kinds of the session
CreatedAsEntered(u, guests) ==
  LET d == data[u]
      row == apartments'[Len(apartments')]
  IN  /\ Len(apartments') = Len(apartments) + 1
      /\ SubSeq(apartments', 1, Len(apartments)) = apartments
      /\ row.is_active
      /\ row.guests_max = guests
      /\ row.tags = LowerAll(StrippedNonEmpty(split(d["tags"], ",")))
      /\ row.details_json.media_items = d["media_items"]

\* the digits typed at the guest step are stored as the number they spell
GuestStepStores ==
  \A u \in Users :
     (fsm[u] = "waiting_text" /\ StepAt(IndexOf(data[u])).key = "guests_max") =>
        \A m \in Inputs(u) :
           (u \in ADMIN_IDS /\ isdigit(strip(m.text)) /\ msg_apartment_wizard_text(u, m))
             => data'[u]["guests_max"] = int(strip(m.text))

\* C16 as stated: the commit of a create run with valid inputs creates an
\* active row whose guest count is the number entered at the guest step, whose
\* tags are the entered tags and whose media list is the accepted items in
\* submission order with their kinds.
C16_CommitCreatesAsEntered ==
  [][/\ GuestStepStores
     /\ \A u \in Users :
          (CreateRunDone(u) /\ preview_save(u, TRUE))
            => CreatedAsEntered(u, data[u]["guests_max"])]_vars

\* C16 amended: the same, with the guest count of the row being the number
\* entered or 1 when the number entered is 0.
C16_CommitCreatesClamped ==
  [][/\ GuestStepStores
     /\ \A u \in Users :
          (CreateRunDone(u) /\ preview_save(u, TRUE))
            => CreatedAsEntered(u, IF data[u]["guests_max"] < 1 THEN 1
                                   ELSE data[u]["guests_max"])]_vars

\* a create run in which 0 was entered at the guest step has been committed
\* from the preview: the new row is active, has guest count 1, the two tags
\* in lower case and the photo
C16_Witness ==
  /\ last = [user |-> Admin, from |-> "preview", reply |-> "apartment_saved"]
  /\ commits = 1
  /\ apartments # <<>>
  /\ LET row == apartments[Len(apartments)]
     IN  /\ row.is_active
         /\ row.guests_max = 1
         /\ row.tags = << <<"b">>, <<"q">> >>
         /\ row.details_json.media_items = <<[type |-> PHOTO_KIND, value |-> <<"p">>]>>

\* the ids a sequence of ids holds
Range(s) == {s[i] : i \in 1..Len(s)}

\* the item of id i passes the filter: it is active, has room for the bucket's
\* threshold of guests if the filter has a bucket, and shares a tag with the
\* filter, letter case aside, if the filter has tags
Passes(i, filters) ==
  /\ apartments[i].is_active
  /\ filters.guests = "1-2" => apartments[i].guests_max >= 2
  /\ filters.guests = "3-4" => apartments[i].guests_max >= 4
  /\ filters.guests = "5+" => apartments[i].guests_max >= 5
  /\ filters.tags # {} =>
       \E k \in 1..Len(apartments[i].tags), t \in filters.tags :
          lower(apartments[i].tags[k]) = lower(t)

\* C17: whenever a user's screen is rendered anew, under whatever filter the
\* user has set: catalog_query returns an item on some page iff the item
\* passes the filter, the total it returns is the number of items that pass,
\* and the screen shows the rows and the total of its page.
C17_FilterMembership ==
  [][result' # result =>
       \A F \in {user_filters[result'.user]} :
       \A passing \in {{i \in 1..Len(apartments) : Passes(i, F)}} :
       \A Q \in {[p \in 1..MaxPage |-> catalog_query(apartments, F, p, PAGE_SIZE)]} :
          /\ UNION {Range(Q[p].rows) : p \in 1..MaxPage} = passing
          /\ \A p \in 1..MaxPage : Q[p].total = Cardinality(passing)
          /\ result'.rows = Q[result'.page].rows
          /\ result'.total = Cardinality(passing)]_vars

\* of seven items, one of them inactive and fit, the screen shows the only one
\* that is active, has room for four guests and carries the tag b, found
\* under the filter tag B
C17_Witness ==
  /\ Len(apartments) = 7
  /\ user_filters[Guest] = [guests |-> "3-4", tags |-> {<<"B">>}]
  /\ result = [user |-> Guest, page |-> 1, rows |-> <<5>>, total |-> 1]

\* the rows of the pages 1..n of Q one after the other
RECURSIVE Concat(_, _)
Concat(Q, n) == IF n = 0 THEN <<>> ELSE Concat(Q, n - 1) \o Q[n].rows

\* C18: whenever a user's screen is rendered anew, under whatever filter the
\* user has set: the pages 1..ceil(total/page_size) of catalog_query, one
\* after the other, hold every item that passes the filter exactly once, in
\* ascending order of (sort_order, id), and every page after the last one is
\* empty.
C18_PagesPartition ==
  [][result' # result =>
       \A F \in {user_filters[result'.user]} :
       \A passing \in {{i \in 1..Len(apartments) : Passes(i, F)}} :
       \A Q \in {[p \in 1..MaxPage |-> catalog_query(apartments, F, p, PAGE_SIZE)]} :
       \A pages \in {(Q[1].total + PAGE_SIZE - 1) \div PAGE_SIZE} :
       \A all \in {Concat(Q, pages)} :
          /\ pages <= MaxPage
          /\ Range(all) = passing
          /\ Len(all) = Cardinality(passing)
          /\ \A a, b \in 1..Len(all) :
                a < b => \/ apartments[all[a]].sort_order < apartments[all[b]].sort_order
                         \/ /\ apartments[all[a]].sort_order = apartments[all[b]].sort_order
                            /\ all[a] < all[b]
          /\ \A p \in (pages + 1)..MaxPage : Q[p].rows = <<>>
          /\ \A p \in 1..pages : Len(Q[p].rows) = IF p < pages THEN PAGE_SIZE
                                                 ELSE Q[1].total - (pages - 1) * PAGE_SIZE]_vars

\* the second page of six items that pass: the one item the first page had
\* no room for, the one with the largest sort order
C18_Witness ==
  /\ Len(apartments) = 7
  /\ user_filters[Admin] = DEFAULT_FILTER
  /\ result = [user |-> Admin, page |-> 2, rows |-> <<1>>, total |-> 6]

\* C19: a catalog click of a user is accepted iff no catalog click of that
\* user was accepted less than the cooldown before it.  An accepted click
\* renders its page and becomes the click accepted last; a suppressed click
\* ends without an error and changes nothing: not the time of the click
\* accepted last, not the screen, not the count of the renders.  The clicks of
\* the other user neither count nor change.
C19_ThrottlePerUserAndKey ==
  [][\A u \in Users, page \in 1..2 :
       cb_catalog(u, page) =>
         LET recent == \E k \in 1..Len(registered[u]) :
                          now - registered[u][k] < THROTTLE_SECONDS
         IN  /\ \A v \in Users \ {u} :
                  /\ registered'[v] = registered[v]
                  /\ \A key \in {"catalog"} :
                        <<v, key>> \in DOMAIN last_click_at =>
                           last_click_at'[<<v, key>>] = last_click_at[<<v, key>>]
             /\ IF recent
                THEN /\ last'.reply = "too_fast"
                     /\ UNCHANGED <<last_click_at, result, registered, user_filters>>
                ELSE /\ registered'[u] = Append(registered[u], now)
                     /\ last_click_at'[<<u, "catalog">>] = now
                     /\ result'.user = u /\ result'.page = page]_vars

\* a click at 0, then the next accepted click of the same user 700 ms later,
\* while the other user's click at 200 ms was accepted on its own account
C19_Witness ==
  /\ now = 7
  /\ registered[Guest] = <<0, 7>>
  /\ registered[Admin] = <<2>>
  /\ last = [user |-> Guest, from |-> None, reply |-> "catalog_shown"]

\* the request r has no other request handled beside it, from its first
\* statement to its last
Sequential(r) ==
  /\ requests[r].during = {}
  /\ \A k \in 1..Len(requests) : r \notin requests[k].during

\* the request r hands out its code: the code was free until now and is now
\* assigned to the user of r, and no other code changes
HandsOutFreeCode(r) ==
  LET row == requests[r].row
  IN  /\ ~promo_codes[row].is_assigned
      /\ promo_codes[row].kind = "welcome"
      /\ promo_codes'[row].is_assigned
      /\ promo_codes'[row].assigned_to = requests[r].user
      /\ \A i \in 1..Len(promo_codes) : i # row => promo_codes'[i] = promo_codes[i]

\* the request that begins is turned down and changes no code
TurnedDown ==
  /\ requests'[Len(requests')].answer = "already_received"
  /\ requests'[Len(requests')].pc = "done"
  /\ promo_codes' = promo_codes

C24_RestartOnlyFromPreview ==
  [][\A u \in Users, db_ok \in BOOLEAN :
       (fsm[u] # "preview" /\ cb_apartment_wizard_preview(u, "restart", db_ok))
         => /\ fsm'[u] = fsm[u]
            /\ IndexOf(data'[u]) = IndexOf(data[u])
            /\ Has(data'[u], "wizard_index") = Has(data[u], "wizard_index")
            /\ \A k \in FieldKeys : SameField(data[u], data'[u], k)]_vars

C26_AdvanceStoresOneKey ==
  [][\A u \in ADMIN_IDS :
       fsm[u] = "waiting_text" =>
         \A m \in Inputs(u) :
            (~InvalidText(u, m) /\ msg_apartment_wizard_text(u, m))
              => LET d == data[u]
                     step == StepAt(IndexOf(d))
                     key == IF Get(d, "custom_step_key", None) # None
                            THEN d["custom_step_key"] ELSE step.key
                 IN  /\ Has(data'[u], key)
                     /\ data'[u][key] = IF step.kind = "int" THEN int(strip(m.text))
                                        ELSE strip(m.text)
                     /\ \A k \in FieldKeys \ {key} : SameField(d, data'[u], k)
                     /\ IndexOf(data'[u]) = IndexOf(d) + 1
                     /\ Get(data'[u], "custom_step_key", None) = None
                     /\ SameField(d, data'[u], "wizard_mode")
                     /\ SameField(d, data'[u], "wizard_apartment_id")]_vars

\* the number 4 sent at the guest step was stored and the run stands at the
\* tags step
C26_Witness ==
  /\ last = [user |-> Admin, from |-> "waiting_text", reply |-> "value_stored"]
  /\ fsm[Admin] = "waiting_text"
  /\ IndexOf(data[Admin]) = 6
  /\ data[Admin]["guests_max"] = 4
  /\ data[Admin]["custom_step_key"] = None
  /\ ~IsEdit(data[Admin])
  /\ ~Has(data[Admin], "tags")


\* C30: no action sent by a user who is not in ADMIN_IDS changes an
\* apartment row: a step taken for such a user leaves the table as it is.
C30_NonAdminChangesNoRow ==
  [][\A u \in Users \ ADMIN_IDS : last'.user = u => apartments' = apartments]_vars


\* C28: no user ever holds more than one promo code of kind welcome,
\* whatever the interleaving of the statements of that user's requests.
C28_OneWelcomeCodePerUser ==
  \A u \in Users : WelcomeCount(u) <= 1

\* C29: every promo code is handed out to at most one user: a code that is
\* assigned is never assigned again, and no two requests tell their users
\* the same code.
C29_CodeHandedOutOnce ==
  [][/\ \A i \in 1..Len(promo_codes) :
          promo_codes[i].is_assigned => promo_codes'[i] = promo_codes[i]
     /\ \A r, q \in 1..Len(requests') :
          (/\ r # q
           /\ requests'[r].answer = "code"
           /\ requests'[q].answer = "code"
           /\ requests'[r].row = requests'[q].row)
            => requests'[r].user = requests'[q].user]_vars


\* C25: two accepted media submissions of one user that arrive back to back
\* during the media step are both in the accumulated list, in the order of
\* arrival, once their handlers have finished.
C25_BothSubmissionsInOrder ==
  (/\ Len(tasks) = 2
   /\ tasks[1].user = tasks[2].user
   /\ \A t \in 1..2 : tasks[t].pc = "done" /\ AcceptedMedia(tasks[t].msg) # <<>>)
    => Get(data[tasks[1].user], "media_items", <<>>)
         = AcceptedMedia(tasks[1].msg) \o AcceptedMedia(tasks[2].msg)


\* C22: when the operator confirms a broadcast that has its segment and
\* text, delivery is tried to every recipient the segment selects (every
\* unblocked user for the segment all) whatever deliveries fail, every
\* recipient whose delivery failed is blocked, and the operator's session is
\* cleared; a blocked user stays blocked and is never tried again.
C22_BroadcastReachesAll ==
  [][/\ \A u \in ADMIN_IDS :
          (/\ fsm[u] = "broadcast_waiting_confirm"
           /\ Get(data[u], "segment", None) \in Segments
           /\ Has(data[u], "broadcast_text")
           /\ data[u]["broadcast_text"] # <<>>
           /\ cb_admin_broadcast_segment(u, "confirm"))
            => /\ outbox'.by = "broadcast"
               /\ data[u]["segment"] = "all"
                    => Range(outbox'.tried) = {uid \in 1..MaxUsers : ~is_blocked[uid]}
               /\ outbox'.tried = outbox'.rows
               /\ \A uid \in outbox'.failed : is_blocked'[uid]
               /\ fsm'[u] = None
               /\ data'[u] = EmptyData
     /\ \A uid \in 1..MaxUsers :
          is_blocked[uid] => /\ is_blocked'[uid]
                             /\ outbox' # outbox => uid \notin Range(outbox'.tried)]_vars


\* the replies that are no message to the user: the handler returned without
\* an answer, or an exception left it and the dispatcher logged the failure
Unanswered == {NO_REPLY, "save_failed", "restart_failed", "update_failed"}

\* C21: when an exception leaves a handler (here int(value) of the edit of
\* sort_order, for a text that is not a number), the user who sent the update
\* is answered with a failure message, and the table stays as it is.
C21_FailureAnswered ==
  [][\A u \in ADMIN_IDS :
       (/\ fsm[u] = "waiting_field_value"
        /\ Get(data[u], "field", None) = "sort_order")
         => \A m \in FieldInputs(u) :
              (~isdigit(strip(m.text)) /\ msg_admin_apt_field(u, m))
                => /\ last'.reply \notin Unanswered
                   /\ apartments' = apartments]_vars


\* C23: in a run whose environment lacks a required setting, main() opens no
\* pool, creates no schema, starts no reminder task and no polling, and no
\* update of a user is handled.
C23_NoStartWithoutSettings ==
  REQUIRED_ENV \ boot.env # {}
    => /\ boot.opened = {}
       /\ boot.pc \in {"main", "RuntimeError"}
       /\ last.reply = NO_REPLY

\* the environment lacks WELCOME_TEXT alone and main() has raised
C23_Witness ==
  /\ boot = [env |-> Settings \ {"WELCOME_TEXT"}, pc |-> "RuntimeError", opened |-> {}]
  /\ last.reply = NO_REPLY


\* C36: in every session the FSM state and the step index agree: in
\* waiting_text and waiting_media the index is in 0..N-1 and the step at the
\* index has the kind of the state, and the state is preview exactly when
\* the index is N.
C36_StateAgreesWithIndex ==
  \A u \in Users :
    /\ fsm[u] \in {"waiting_text", "waiting_media"}
         => /\ Has(data[u], "wizard_index")
            /\ data[u]["wizard_index"] \in 0..(N - 1)
            /\ (StepAt(data[u]["wizard_index"]).kind = "media_upload") = (fsm[u] = "waiting_media")
    /\ fsm[u] = "preview" <=> (Has(data[u], "wizard_index") /\ data[u]["wizard_index"] = N)

C31_QualifiedOnce ==
  \A uid \in 1..MaxUsers :
    /\ Cardinality({t \in 1..Len(tasks) : tasks[t].user = uid /\ tasks[t].qualified}) <= 1
    /\ Cardinality({t \in 1..Len(tasks) : tasks[t].user = uid /\ tasks[t].rewarded # 0}) <= 1
    /\ STRICT_PHONE_MODE /\ (\E r \in referrals : r.invitee_user_id = uid /\ r.qualified)
         => users[uid].phone

\* C33: when /delete_me of a user has been handled, no table holds a row of
\* that user: users, referrals, giveaway_entries, date_requests,
\* entry_date_requests, click_events, assigned promo_codes, events.
C33_NothingLeftOfUser ==
  last.reply = "data_deleted"
    => /\ ~users[last.user].present
       /\ \A r \in referrals : last.user \notin {r.inviter_user_id, r.invitee_user_id}
       /\ \A e \in giveaway_entries : e.user_id # last.user
       /\ \A t \in LogTables : last.user \notin stored[t]
       /\ \A i \in 1..Len(promo_codes) : promo_codes[i].assigned_to # last.user

\* C35: a user marked blocked is a user a delivery to whom has failed.
C35_BlockedOnlyAfterFailedDelivery ==
  \A uid \in 1..MaxUsers : is_blocked[uid] => uid \in outbox.failed

\* C34: a turn of the reminder pass that delivers a reminder to a user
\* delivers it to a user who has not opted out, is not blocked, was seen
\* more than 7 days ago and was reminded never or at least 14 days ago.
C34_ReminderOnlyWhenDue ==
  [][\A outcome \in {"delivered", "execute_raises"}, blocked_raises \in BOOLEAN :
       reminders_send(outcome, blocked_raises)
         => \A uid \in {Head(outbox.rows)} :
              /\ ~users[uid].reminders_opt_out
              /\ ~is_blocked[uid]
              /\ users[uid].last_seen_at < now - SEEN_DAYS
              /\ (outbox.tried[uid] = NEVER \/ outbox.tried[uid] <= now - REMINDER_DAYS)]_vars

\* C32: a code the operator's manual flow has told a user is stored as a
\* code assigned to that user, and to no other user.
C32_AnnouncedCodeIsAssigned ==
  (outbox.by = "msg_admin_code_add" /\ outbox.delivered)
    => /\ \E i \in RowsOfCode(outbox.code) :
             promo_codes[i].is_assigned /\ promo_codes[i].assigned_to = outbox.to
       /\ \A i \in RowsOfCode(outbox.code) : promo_codes[i].assigned_to = outbox.to

====
